---- MODULE Spec2Model ----
(***************************************************************************)
(* A model of the ingestion pipeline of cc-history-export: the message     *)
(* content decoder (models/message.go), the session aggregate              *)
(* (models/session.go), the JSONL reader (reader/jsonl.go) and the project *)
(* scanner (reader/scanner.go).                                            *)
(***************************************************************************)
EXTENDS Integers, Sequences, FiniteSets, TLC

VARIABLES
    session,      \* SpecSession: the models.Session under construction
    msg,          \* SpecParse: the models.Message ParseContent is called on
    msgOrig,      \* SpecParse: that message as it was before the call
    parseErr,     \* SpecParse: "none" before the call, else "nil" / "error"
    file,         \* SpecRead: the lines of the session file being read
    fileOpen,     \* SpecRead: whether os.Open succeeds on it
    lineNum,      \* SpecRead: ReadSession's lineNum
    rsSession,    \* SpecRead: ReadSession's session
    rsWarnings,   \* SpecRead: line numbers of the parse warnings on stderr
    rsResult,     \* SpecRead: what ReadSession returned ("running" before)
    stLineNum,    \* SpecRead: StreamJSONLMessages' lineNum
    stDelivered,  \* SpecRead: the messages the callback was called with
    stWarnings,   \* SpecRead: line numbers of StreamJSONLMessages' warnings
    stResult,     \* SpecRead: what StreamJSONLMessages returned
    cbFailAt,     \* SpecRead: the call at which the callback fails (0: never)
    archive,      \* SpecScan: the archive directory on disk
    options,      \* SpecScan: the ScanOptions
    pc,           \* SpecScan: position of ScanProjects
    entryIdx,     \* SpecScan: index of the next entry of the listing
    projects,     \* SpecScan: ScanProjects' projects slice
    sessionCount, \* SpecScan: ScanProjects' sessionCount
    scanResult,   \* SpecScan: what ScanProjects returned
    visited,      \* SpecScan: entry indexes whose session files were read
    filesRead,    \* SpecScan: <<entry, file>> pairs ReadSession was called on
    claudeMd,     \* SpecScan: what os.ReadFile gave for CLAUDE.md
    configResult, \* SpecScan: what ScanClaudeConfig returned
    cfg,          \* SpecCLI: the config parseFlags built
    cliPc,        \* SpecCLI: position of main
    exitCode,     \* SpecCLI: the exit status (-1 while running)
    cliErr,       \* SpecCLI: the error main printed ("" for none)
    stdout,       \* SpecCLI: what was written to standard output
    disk,         \* SpecCLI: the files an export was written to
    batchIdx,     \* SpecCLI: index of the next project of ExportProjects
    batchResult   \* SpecCLI: ExportProjects' BatchExportResult

vars == <<session, msg, msgOrig, parseErr, file, fileOpen, lineNum, rsSession,
          rsWarnings, rsResult, stLineNum, stDelivered, stWarnings, stResult,
          cbFailAt, archive, options, pc, entryIdx, projects, sessionCount,
          scanResult, visited, filesRead, claudeMd, configResult, cfg, cliPc,
          exitCode, cliErr, stdout, disk, batchIdx, batchResult>>

sessionVars == <<session>>
parseVars == <<msg, msgOrig, parseErr>>
streamVars == <<stLineNum, stDelivered, stWarnings, stResult, cbFailAt>>
readVars == <<file, fileOpen, lineNum, rsSession, rsWarnings, rsResult, streamVars>>
configVars == <<claudeMd, configResult>>
cliVars == <<cfg, cliPc, exitCode, cliErr, stdout, disk, batchIdx, batchResult>>
scanAux == <<pc, entryIdx, sessionCount, visited, filesRead, configVars>>
scanVars == <<archive, options, pc, entryIdx, projects, sessionCount,
              scanResult, visited, filesRead, configVars>>

(***************************************************************************)
(* Bounds of the model.                                                    *)
(***************************************************************************)
\* time.Time instants are integers; the zero time is 0, instants before it
\* (year 0000) are negative.
MaxTime == 3
PreZero == 0
MaxMessages == 3
MaxLines == 3
MaxProjects == 2
MaxCap == 2
MaxBatch == 2

ZeroTime == 0
Times == (0 - PreZero)..MaxTime

(***************************************************************************)
(* JSON values, and encoding/json's Unmarshal into the types of            *)
(* models/message.go.  A decoder returns [ok |-> FALSE] on an error and    *)
(* [ok |-> TRUE, v |-> value] otherwise.  The target is always a fresh     *)
(* zero value, so a JSON null, which Unmarshal treats as a no-op, yields   *)
(* the zero value of the target type.                                      *)
(***************************************************************************)
JAbsent == [k |-> "absent"]     \* an empty json.RawMessage / a missing field
JInvalid == [k |-> "invalid"]   \* bytes that are not JSON
JNull == [k |-> "null"]
JBool == [k |-> "bool"]
JStr(s) == [k |-> "str", s |-> s]
JNum(n) == [k |-> "num", n |-> n]
JArr(a) == [k |-> "arr", a |-> a]
JObj(o) == [k |-> "obj", o |-> o]

Fail == [ok |-> FALSE]
Ok(v) == [ok |-> TRUE, v |-> v]

Field(j, f) == IF f \in DOMAIN j.o THEN j.o[f] ELSE JAbsent

DecString(j) ==
    CASE j.k = "str" -> Ok(j.s)
      [] j.k = "null" -> Ok("")
      [] OTHER -> Fail

DecInt(j) ==
    CASE j.k = "num" -> Ok(j.n)
      [] j.k = "null" -> Ok(0)
      [] OTHER -> Fail

\* a struct field of type string / int: a missing key leaves the zero value
StrField(j, f) == IF Field(j, f).k = "absent" THEN Ok("") ELSE DecString(Field(j, f))
IntField(j, f) == IF Field(j, f).k = "absent" THEN Ok(0) ELSE DecInt(Field(j, f))

\* models.ToolResult
ZeroToolResult == [ToolUseID |-> "", Type |-> "", Content |-> JAbsent]
DecToolResult(j) ==
    CASE j.k = "null" -> Ok(ZeroToolResult)
      [] j.k = "obj" ->
            LET id == StrField(j, "tool_use_id")
                ty == StrField(j, "type")
            IN  IF id.ok /\ ty.ok
                THEN Ok([ToolUseID |-> id.v, Type |-> ty.v,
                         Content |-> Field(j, "content")])
                ELSE Fail
      [] OTHER -> Fail

\* []models.ToolResult
DecToolResults(j) ==
    CASE j.k = "null" -> Ok(<<>>)
      [] j.k = "arr" ->
            IF \A i \in 1..Len(j.a) : DecToolResult(j.a[i]).ok
            THEN Ok([i \in 1..Len(j.a) |-> DecToolResult(j.a[i]).v])
            ELSE Fail
      [] OTHER -> Fail

\* models.MessageContent, a content block of an assistant message
ZeroBlock == [Type |-> "", Text |-> ""]
DecBlock(j) ==
    CASE j.k = "null" -> Ok(ZeroBlock)
      [] j.k = "obj" ->
            LET ty == StrField(j, "type")
                tx == StrField(j, "text")
            IN  IF ty.ok /\ tx.ok
                THEN Ok([Type |-> ty.v, Text |-> tx.v])
                ELSE Fail
      [] OTHER -> Fail

\* []models.MessageContent
DecBlocks(j) ==
    CASE j.k = "null" -> Ok(<<>>)
      [] j.k = "arr" ->
            IF \A i \in 1..Len(j.a) : DecBlock(j.a[i]).ok
            THEN Ok([i \in 1..Len(j.a) |-> DecBlock(j.a[i]).v])
            ELSE Fail
      [] OTHER -> Fail

\* models.Usage behind a pointer: null and a missing key leave the pointer nil
NilUsage == [nil |-> TRUE]
DecUsage(j) ==
    CASE j.k = "null" -> Ok(NilUsage)
      [] j.k = "obj" ->
            LET i == IntField(j, "input_tokens")
                o == IntField(j, "output_tokens")
                cc == IntField(j, "cache_creation_input_tokens")
                cr == IntField(j, "cache_read_input_tokens")
            IN  IF i.ok /\ o.ok /\ cc.ok /\ cr.ok
                THEN Ok([nil |-> FALSE,
                         InputTokens |-> i.v, OutputTokens |-> o.v,
                         CacheCreationInputTokens |-> cc.v,
                         CacheReadInputTokens |-> cr.v])
                ELSE Fail
      [] OTHER -> Fail

(***************************************************************************)
(* Message.Content: nil, *UserMessage, []ToolResult or *AssistantMessage.  *)
(***************************************************************************)
NilContent == [t |-> "nil"]
UserMessage(role, content) == [t |-> "UserMessage", Role |-> role, Content |-> content]
ToolResultList(l) == [t |-> "ToolResults", list |-> l]
AssistantMessage(model, blocks, usage) ==
    [t |-> "AssistantMessage", Model |-> model, Content |-> blocks, Usage |-> usage]

\* json.Unmarshal(m.Message, &AssistantMessage{})
DecAssistant(j) ==
    CASE j.k = "null" -> Ok(AssistantMessage("", <<>>, NilUsage))
      [] j.k = "obj" ->
            LET id == StrField(j, "id")
                ty == StrField(j, "type")
                ro == StrField(j, "role")
                mo == StrField(j, "model")
                co == IF Field(j, "content").k = "absent" THEN Ok(<<>>)
                      ELSE DecBlocks(Field(j, "content"))
                us == IF Field(j, "usage").k = "absent" THEN Ok(NilUsage)
                      ELSE DecUsage(Field(j, "usage"))
            IN  IF id.ok /\ ty.ok /\ ro.ok /\ mo.ok /\ co.ok /\ us.ok
                THEN Ok(AssistantMessage(mo.v, co.v, us.v))
                ELSE Fail
      [] OTHER -> Fail

\* json.Unmarshal(m.Message, &struct{Role string; Content json.RawMessage})
DecUserPayload(j) ==
    CASE j.k = "null" -> Ok([Role |-> "", Content |-> JAbsent])
      [] j.k = "obj" ->
            LET ro == StrField(j, "role")
            IN  IF ro.ok
                THEN Ok([Role |-> ro.v, Content |-> Field(j, "content")])
                ELSE Fail
      [] OTHER -> Fail

\* json.Unmarshal(data, &target) fails on empty or non-JSON input before it
\* looks at the target
SyntaxError(j) == j.k \in {"absent", "invalid"}
UnmarshalUserPayload(j) == IF SyntaxError(j) THEN Fail ELSE DecUserPayload(j)
UnmarshalString(j) == IF SyntaxError(j) THEN Fail ELSE DecString(j)
UnmarshalToolResults(j) == IF SyntaxError(j) THEN Fail ELSE DecToolResults(j)
UnmarshalAssistant(j) == IF SyntaxError(j) THEN Fail ELSE DecAssistant(j)

(***************************************************************************)
(* models.Message and Message.ParseContent.                                *)
(***************************************************************************)
MessageTypeUser == "user"
MessageTypeAssistant == "assistant"

\* a ParseContent that releases the raw payload of a decoded assistant message
ParseContent_DropsPayload(m) ==
    IF m.Type = MessageTypeAssistant /\ UnmarshalAssistant(m.Message).ok
    THEN [msg |-> [m EXCEPT !.Content = UnmarshalAssistant(m.Message).v,
                            !.Message = JAbsent],
          err |-> FALSE]
    ELSE [msg |-> m, err |-> m.Type = MessageTypeAssistant]

ParseContent(m) ==
    CASE m.Type = MessageTypeUser ->
            IF m.UserType = "external"
            THEN LET p == UnmarshalUserPayload(m.Message)
                 IN  IF ~p.ok THEN [msg |-> m, err |-> TRUE]
                     ELSE LET s == UnmarshalString(p.v.Content)
                              tr == UnmarshalToolResults(p.v.Content)
                          IN  IF s.ok
                              THEN [msg |-> [m EXCEPT !.Content = UserMessage(p.v.Role, s.v)],
                                    err |-> FALSE]
                              ELSE IF tr.ok
                                   THEN [msg |-> [m EXCEPT !.Content = ToolResultList(tr.v)],
                                         err |-> FALSE]
                                   ELSE [msg |-> m, err |-> FALSE]
            ELSE [msg |-> m, err |-> FALSE]
      [] m.Type = MessageTypeAssistant ->
            LET a == UnmarshalAssistant(m.Message)
            IN  IF ~a.ok THEN [msg |-> m, err |-> TRUE]
                ELSE [msg |-> [m EXCEPT !.Content = a.v], err |-> FALSE]
      [] OTHER -> [msg |-> m, err |-> FALSE]

(***************************************************************************)
(* models.Session.                                                         *)
(***************************************************************************)
EmptySession ==
    [ID |-> "", ProjectID |-> "", StartTime |-> ZeroTime, EndTime |-> ZeroTime,
     Messages |-> <<>>]

IsZero(t) == t = ZeroTime
Before(t, u) == t < u
After(t, u) == t > u

\* AddMessage that tests Before, not After, for the end bound
AddMessage_EndBefore(s, m) ==
    LET start == IF IsZero(s.StartTime) \/ Before(m.Timestamp, s.StartTime)
                 THEN m.Timestamp ELSE s.StartTime
        end == IF Before(m.Timestamp, s.EndTime) THEN m.Timestamp ELSE s.EndTime
    IN  [s EXCEPT !.Messages = Append(@, m), !.StartTime = start, !.EndTime = end]

AddMessage(s, m) ==
    LET start == IF IsZero(s.StartTime) \/ Before(m.Timestamp, s.StartTime)
                 THEN m.Timestamp ELSE s.StartTime
        end == IF After(m.Timestamp, s.EndTime) THEN m.Timestamp ELSE s.EndTime
    IN  [s EXCEPT !.Messages = Append(@, m), !.StartTime = start, !.EndTime = end]

GetMessageCount(s) == Len(s.Messages)

\* GetDuration without the zero-time test
GetDuration_NoZeroCheck(s) == s.EndTime - s.StartTime

GetDuration(s) ==
    IF IsZero(s.StartTime) \/ IsZero(s.EndTime) THEN 0 ELSE s.EndTime - s.StartTime

\* GetTokenUsage that also counts cache_creation_input_tokens as input
RECURSIVE TokenUsageUpTo_CacheCreation(_, _)
TokenUsageUpTo_CacheCreation(msgs, n) ==
    IF n = 0 THEN [input |-> 0, output |-> 0]
    ELSE LET acc == TokenUsageUpTo_CacheCreation(msgs, n - 1)
             m == msgs[n]
         IN  IF m.Type = MessageTypeAssistant /\ m.Content.t # "nil"
                /\ m.Content.t = "AssistantMessage" /\ ~m.Content.Usage.nil
             THEN [input |-> acc.input + m.Content.Usage.InputTokens
                                       + m.Content.Usage.CacheReadInputTokens
                                       + m.Content.Usage.CacheCreationInputTokens,
                   output |-> acc.output + m.Content.Usage.OutputTokens]
             ELSE acc

\* the loop of GetTokenUsage over s.Messages[1..n]
RECURSIVE TokenUsageUpTo(_, _)
TokenUsageUpTo(msgs, n) ==
    IF n = 0 THEN [input |-> 0, output |-> 0]
    ELSE LET acc == TokenUsageUpTo(msgs, n - 1)
             m == msgs[n]
         IN  IF m.Type = MessageTypeAssistant /\ m.Content.t # "nil"
                /\ m.Content.t = "AssistantMessage" /\ ~m.Content.Usage.nil
             THEN [input |-> acc.input + m.Content.Usage.InputTokens
                                       + m.Content.Usage.CacheReadInputTokens,
                   output |-> acc.output + m.Content.Usage.OutputTokens]
             ELSE acc

GetTokenUsage(s) == TokenUsageUpTo(s.Messages, Len(s.Messages))

(***************************************************************************)
(* reader/jsonl.go: one line of a session file, json.Unmarshal of a line   *)
(* into models.Message, and JSONLReader.ReadSession.                       *)
(***************************************************************************)
\* RFC 3339 timestamps, in increasing order; the first is the zero time
TimeStrings ==
    << "0001-01-01T00:00:00Z", "2024-07-14T10:00:00Z",
       "2024-07-15T12:00:00Z", "2024-07-16T15:00:00Z",
       "2024-07-20T00:00:00Z", "2024-07-20T12:00:00Z", "2024-07-20T23:59:59Z",
       "2024-07-21T00:00:00Z", "2024-07-21T00:00:01Z" >>

\* Time.UnmarshalJSON
DecTime(j) ==
    CASE j.k = "null" -> Ok(ZeroTime)
      [] j.k = "str" ->
            IF \E i \in 1..Len(TimeStrings) : TimeStrings[i] = j.s
            THEN Ok((CHOOSE i \in 1..Len(TimeStrings) : TimeStrings[i] = j.s) - 1)
            ELSE Fail
      [] OTHER -> Fail

ZeroMessage ==
    [UUID |-> "", ParentUUID |-> "nil", SessionID |-> "", Type |-> "",
     UserType |-> "", Timestamp |-> ZeroTime, Message |-> JAbsent,
     Content |-> NilContent]

\* json.Unmarshal(line, &msg) for var msg models.Message
DecMessage(j) ==
    CASE j.k = "null" -> Ok(ZeroMessage)
      [] j.k = "obj" ->
            LET uu == StrField(j, "uuid")
                pa == IF Field(j, "parentUuid").k \in {"absent", "null"} THEN Ok("nil")
                      ELSE DecString(Field(j, "parentUuid"))
                si == StrField(j, "sessionId")
                ty == StrField(j, "type")
                ut == StrField(j, "userType")
                ts == IF Field(j, "timestamp").k = "absent" THEN Ok(ZeroTime)
                      ELSE DecTime(Field(j, "timestamp"))
            IN  IF uu.ok /\ pa.ok /\ si.ok /\ ty.ok /\ ut.ok /\ ts.ok
                THEN Ok([UUID |-> uu.v, ParentUUID |-> pa.v, SessionID |-> si.v,
                         Type |-> ty.v, UserType |-> ut.v, Timestamp |-> ts.v,
                         Message |-> Field(j, "message"), Content |-> NilContent])
                ELSE Fail
      [] OTHER -> Fail

UnmarshalMessage(j) == IF SyntaxError(j) THEN Fail ELSE DecMessage(j)

\* a line as bufio.Scanner hands it over: of length zero, longer than the
\* buffer, or some text (white space only, or the text of j)
EmptyLine == [k |-> "empty"]
TooLongLine == [k |-> "toolong"]
SpaceLine == [k |-> "text", ws |-> TRUE, j |-> JInvalid]
TextLine(j) == [k |-> "text", ws |-> FALSE, j |-> j]
\* the text of j followed by white space up to exactly maxCapacity bytes
FullLine(j) == [k |-> "full", ws |-> FALSE, j |-> j]

\* a loop body without the continue after a failed json.Unmarshal
ReadLine_NoContinue(s, line) ==
    IF line.k = "empty" THEN s
    ELSE LET d == UnmarshalMessage(line.j)
         IN  IF ~d.ok THEN AddMessage(s, ZeroMessage)
             ELSE LET withID == IF s.ID = "" /\ d.v.SessionID # ""
                                THEN [s EXCEPT !.ID = d.v.SessionID] ELSE s
                  IN  AddMessage(withID, ParseContent(d.v).msg)

\* a loop body that skips the message when ParseContent fails
ReadLine_SkipOnContentError(s, line) ==
    IF line.k = "empty" THEN s
    ELSE LET d == UnmarshalMessage(line.j)
         IN  IF ~d.ok THEN s
             ELSE LET withID == IF s.ID = "" /\ d.v.SessionID # ""
                                THEN [s EXCEPT !.ID = d.v.SessionID] ELSE s
                  IN  IF ParseContent(d.v).err THEN withID
                      ELSE AddMessage(withID, ParseContent(d.v).msg)

\* a loop body that takes the session ID from the first record only
ReadLine_FirstRecordID(s, line) ==
    IF line.k = "empty" THEN s
    ELSE LET d == UnmarshalMessage(line.j)
         IN  IF ~d.ok THEN s
             ELSE LET withID == IF Len(s.Messages) = 0
                                THEN [s EXCEPT !.ID = d.v.SessionID] ELSE s
                  IN  AddMessage(withID, ParseContent(d.v).msg)

\* the loop body of ReadSession: the session after the line
ReadLine(s, line) ==
    IF line.k = "empty" THEN s
    ELSE LET d == UnmarshalMessage(line.j)
         IN  IF ~d.ok THEN s
             ELSE LET withID == IF s.ID = "" /\ d.v.SessionID # ""
                                THEN [s EXCEPT !.ID = d.v.SessionID] ELSE s
                  IN  AddMessage(withID, ParseContent(d.v).msg)

\* whether the loop body prints "failed to parse line"
LineWarns(line) == line.k # "empty" /\ ~UnmarshalMessage(line.j).ok

\* scanner.Buffer(buf, maxCapacity): bufio.Scanner gives up with ErrTooLong
\* when the buffer of maxCapacity bytes is full and holds no complete line,
\* that is for a line of maxCapacity bytes or more
TokenTooLong(line) == line.k \in {"toolong", "full"}

\* scanner.Scan() returns false at the end of input and at a too long line
ScanStops(lines, n) == IF n >= Len(lines) THEN TRUE ELSE TokenTooLong(lines[n + 1])

\* what ReadSession returns once the loop is over
ReadReturn(lines, n, s) ==
    IF n < Len(lines) THEN [err |-> "error reading file"]
    ELSE IF Len(s.Messages) = 0 THEN [err |-> "no messages found in file"]
    ELSE [err |-> "nil", session |-> s]

RECURSIVE ReadLoop(_, _, _)
ReadLoop(lines, n, s) ==
    IF ScanStops(lines, n) THEN ReadReturn(lines, n, s)
    ELSE ReadLoop(lines, n + 1, ReadLine(s, lines[n + 1]))

\* JSONLReader.ReadSession on a file [openable, lines]
ReadSession(f) ==
    IF ~f.openable THEN [err |-> "failed to open file"]
    ELSE ReadLoop(f.lines, 0, EmptySession)

\* a loop body that hands an empty line to json.Unmarshal
StreamLine_NoEmptyCheck(line) ==
    IF line.k = "empty" THEN [warn |-> TRUE, call |-> FALSE]
    ELSE LET d == UnmarshalMessage(line.j)
         IN  IF ~d.ok THEN [warn |-> TRUE, call |-> FALSE]
             ELSE [warn |-> FALSE, call |-> TRUE, msg |-> ParseContent(d.v).msg]

\* a loop body that hands the message over without decoding its content
StreamLine_NoParse(line) ==
    IF line.k = "empty" THEN [warn |-> FALSE, call |-> FALSE]
    ELSE LET d == UnmarshalMessage(line.j)
         IN  IF ~d.ok THEN [warn |-> TRUE, call |-> FALSE]
             ELSE [warn |-> FALSE, call |-> TRUE, msg |-> d.v]

\* the loop body of StreamJSONLMessages: whether the line gives a "failed to
\* parse line" warning, and the message the callback is called with
StreamLine(line) ==
    IF line.k = "empty" THEN [warn |-> FALSE, call |-> FALSE]
    ELSE LET d == UnmarshalMessage(line.j)
         IN  IF ~d.ok THEN [warn |-> TRUE, call |-> FALSE]
             ELSE [warn |-> FALSE, call |-> TRUE, msg |-> ParseContent(d.v).msg]

\* what the callback returns on its n-th call
CallbackFails(failAt, n) == failAt # 0 /\ n = failAt

\* what StreamJSONLMessages returns once the loop is over
StreamReturn(lines, n) == IF n < Len(lines) THEN "error reading" ELSE "nil"

(***************************************************************************)
(* models/project.go and reader/todos.go.                                  *)
(***************************************************************************)
\* file and directory names are sequences of characters
ReplaceAll(str, old, new) == [i \in 1..Len(str) |-> IF str[i] = old THEN new ELSE str[i]]

Contains(str, sub) ==
    \E i \in 0..(Len(str) - Len(sub)) : SubSeq(str, i + 1, i + Len(sub)) = sub

NewProject(encodedPath) ==
    [ID |-> encodedPath, Path |-> ReplaceAll(encodedPath, "-", "/"),
     EncodedPath |-> encodedPath, Sessions |-> <<>>, TodoLists |-> <<>>]

\* AddSession that puts the new session first
AddSession_Prepend(p, s) ==
    [p EXCEPT !.Sessions = <<[s EXCEPT !.ProjectID = p.ID]>> \o @]

AddSession(p, s) == [p EXCEPT !.Sessions = Append(@, [s EXCEPT !.ProjectID = p.ID])]

AddTodoList(p, tl) == [p EXCEPT !.TodoLists = Append(@, tl)]

\* the loop of Project.GetTimeRange over the first n sessions
RECURSIVE TimeRangeUpTo(_, _)
TimeRangeUpTo(sessions, n) ==
    IF n = 0 THEN [start |-> ZeroTime, end |-> ZeroTime]
    ELSE LET prev == TimeRangeUpTo(sessions, n - 1)
             s == sessions[n]
         IN  [start |-> IF IsZero(prev.start) \/ Before(s.StartTime, prev.start)
                        THEN s.StartTime ELSE prev.start,
              end |-> IF After(s.EndTime, prev.end) THEN s.EndTime ELSE prev.end]

GetTimeRange(p) ==
    IF Len(p.Sessions) = 0 THEN [start |-> ZeroTime, end |-> ZeroTime]
    ELSE TimeRangeUpTo(p.Sessions, Len(p.Sessions))

\* *models.Todo; a JSON null element leaves the pointer nil
NilTodo == [nil |-> TRUE]
DecTodo(j) ==
    CASE j.k = "null" -> Ok(NilTodo)
      [] j.k = "obj" ->
            LET id == StrField(j, "id")
                co == StrField(j, "content")
                st == StrField(j, "status")
                pr == StrField(j, "priority")
            IN  IF id.ok /\ co.ok /\ st.ok /\ pr.ok
                THEN Ok([nil |-> FALSE, ID |-> id.v, Content |-> co.v,
                         Status |-> st.v, Priority |-> pr.v])
                ELSE Fail
      [] OTHER -> Fail

\* json.Unmarshal(content, &todos) for var todos []*models.Todo
UnmarshalTodos(j) ==
    IF SyntaxError(j) THEN Fail
    ELSE CASE j.k = "null" -> Ok(<<>>)
           [] j.k = "arr" ->
                 IF \A i \in 1..Len(j.a) : DecTodo(j.a[i]).ok
                 THEN Ok([i \in 1..Len(j.a) |-> DecTodo(j.a[i]).v])
                 ELSE Fail
           [] OTHER -> Fail

\* the loop of GetCompletionRate over the first n todos: the count of
\* completed ones, or a panic when todo.Status is read through a nil *Todo
RECURSIVE CompletedUpTo(_, _)
CompletedUpTo(todos, n) ==
    IF n = 0 THEN [panic |-> FALSE, completed |-> 0]
    ELSE LET acc == CompletedUpTo(todos, n - 1)
         IN  IF acc.panic \/ todos[n].nil THEN [panic |-> TRUE, completed |-> 0]
             ELSE IF todos[n].Status = "completed"
                  THEN [acc EXCEPT !.completed = @ + 1]
                  ELSE acc

\* TodoList.GetCompletionRate: the float64 result as the fraction num/den
GetCompletionRate(tl) ==
    IF Len(tl.Todos) = 0 THEN [panic |-> FALSE, num |-> 0, den |-> 1]
    ELSE LET c == CompletedUpTo(tl.Todos, Len(tl.Todos))
         IN  IF c.panic THEN [panic |-> TRUE, num |-> 0, den |-> 1]
             ELSE [panic |-> FALSE, num |-> c.completed * 100, den |-> Len(tl.Todos)]

\* TodoReader.Read on a todo file [name, isDir, readable, json]
TodoRead(f) ==
    IF ~f.readable THEN [err |-> "failed to read todo file"]
    ELSE IF ~UnmarshalTodos(f.json).ok THEN [err |-> "failed to parse todo JSON"]
    ELSE [err |-> "nil", todos |-> UnmarshalTodos(f.json).v]

(***************************************************************************)
(* reader/scanner.go.                                                      *)
(***************************************************************************)
NilTime == [nil |-> TRUE]
PtrTime(t) == [nil |-> FALSE, t |-> t]

\* a path filter applied to the directory name as it is, not decoded
shouldProcessProject_NoDecode(opts, encodedPath) ==
    IF Len(opts.ProjectPaths) = 0 THEN TRUE
    ELSE \E i \in 1..Len(opts.ProjectPaths) : Contains(encodedPath, opts.ProjectPaths[i])

shouldProcessProject(opts, encodedPath) ==
    IF Len(opts.ProjectPaths) = 0 THEN TRUE
    ELSE LET decodedPath == ReplaceAll(encodedPath, "-", "/")
         IN  \E i \in 1..Len(opts.ProjectPaths) : Contains(decodedPath, opts.ProjectPaths[i])

\* a date filter whose lower bound looks at the session's StartTime
shouldIncludeSession_StartTime(opts, s) ==
    IF ~opts.StartDate.nil /\ Before(s.StartTime, opts.StartDate.t) THEN FALSE
    ELSE IF ~opts.EndDate.nil /\ After(s.EndTime, opts.EndDate.t) THEN FALSE
    ELSE TRUE

shouldIncludeSession(opts, s) ==
    IF ~opts.StartDate.nil /\ Before(s.EndTime, opts.StartDate.t) THEN FALSE
    ELSE IF ~opts.EndDate.nil /\ After(s.EndTime, opts.EndDate.t) THEN FALSE
    ELSE TRUE

\* a directory entry is a session file when it is no directory and its name
\* ends in .jsonl
IsSessionFile(f) == f.kind = "jsonl"

\* a loop that gives up at the first session file that cannot be read
RECURSIVE SessionsUpTo_StopAtFailure(_, _, _)
SessionsUpTo_StopAtFailure(files, n, projectID) ==
    IF n = 0 THEN [sessions |-> <<>>, read |-> {}, stopped |-> FALSE]
    ELSE LET prev == SessionsUpTo_StopAtFailure(files, n - 1, projectID)
             r == ReadSession(files[n])
         IN  IF prev.stopped \/ ~IsSessionFile(files[n]) THEN prev
             ELSE IF r.err # "nil"
                  THEN [prev EXCEPT !.read = @ \cup {n}, !.stopped = TRUE]
             ELSE [prev EXCEPT !.read = @ \cup {n},
                               !.sessions = Append(@, [r.session EXCEPT !.ProjectID = projectID])]

\* the loop of scanProjectSessions over the first n entries of the directory:
\* the sessions, and the entries ReadSession was called on
RECURSIVE SessionsUpTo(_, _, _)
SessionsUpTo(files, n, projectID) ==
    IF n = 0 THEN [sessions |-> <<>>, read |-> {}, stopped |-> FALSE]
    ELSE LET prev == SessionsUpTo(files, n - 1, projectID)
             r == ReadSession(files[n])
         IN  IF ~IsSessionFile(files[n]) THEN prev
             ELSE IF r.err # "nil" THEN [prev EXCEPT !.read = @ \cup {n}]
             ELSE [prev EXCEPT !.read = @ \cup {n},
                               !.sessions = Append(@, [r.session EXCEPT !.ProjectID = projectID])]

scanProjectSessions(dir, projectID) ==
    IF ~dir.readable THEN [err |-> "readdir"]
    ELSE [err |-> "nil",
          sessions |-> SessionsUpTo(dir.files, Len(dir.files), projectID).sessions,
          read |-> SessionsUpTo(dir.files, Len(dir.files), projectID).read]

\* strings.HasSuffix(name, ".json") and strings.Split(name, "-agent-") on a
\* name given as its pieces
HasJSONSuffix(name) == IF Len(name) = 0 THEN FALSE ELSE name[Len(name)] = ".json"
SepPositions(name) == { i \in 1..Len(name) : name[i] = "-agent-" }
SplitCount(name) == Cardinality(SepPositions(name)) + 1
SessionPart(name) == SubSeq(name, 1, (CHOOSE i \in SepPositions(name) : TRUE) - 1)
AgentPart(name) ==
    LET rest == SubSeq(name, (CHOOSE i \in SepPositions(name) : TRUE) + 1, Len(name))
    IN  IF HasJSONSuffix(rest) THEN SubSeq(rest, 1, Len(rest) - 1) ELSE rest

\* a loop that attaches a list whenever the derived session/agent pair is
\* non-empty, whatever the number of todo records
RECURSIVE TodoListsUpTo_PairNonEmpty(_, _)
TodoListsUpTo_PairNonEmpty(files, n) ==
    IF n = 0 THEN <<>>
    ELSE LET prev == TodoListsUpTo_PairNonEmpty(files, n - 1)
             f == files[n]
         IN  IF f.isDir \/ ~HasJSONSuffix(f.name) THEN prev
             ELSE IF SplitCount(f.name) # 2 THEN prev
             ELSE IF TodoRead(f).err # "nil" THEN prev
             ELSE IF SessionPart(f.name) # <<>> /\ AgentPart(f.name) # <<>>
                  THEN Append(prev, [SessionID |-> SessionPart(f.name),
                                     AgentID |-> AgentPart(f.name),
                                     Todos |-> TodoRead(f).todos])
                  ELSE prev

\* a loop that ends at the first todo file that fails to read
RECURSIVE TodoListsUpTo_BreakOnFailure(_, _)
TodoListsUpTo_BreakOnFailure(files, n) ==
    IF n = 0 THEN <<>>
    ELSE LET prev == TodoListsUpTo_BreakOnFailure(files, n - 1)
             f == files[n]
             failed(m) == /\ ~files[m].isDir /\ HasJSONSuffix(files[m].name)
                          /\ SplitCount(files[m].name) = 2
                          /\ TodoRead(files[m]).err # "nil"
         IN  IF \E m \in 1..(n - 1) : failed(m) THEN prev
             ELSE IF f.isDir \/ ~HasJSONSuffix(f.name) THEN prev
             ELSE IF SplitCount(f.name) # 2 THEN prev
             ELSE IF TodoRead(f).err # "nil" THEN prev
             ELSE IF Len(TodoRead(f).todos) > 0
                  THEN Append(prev, [SessionID |-> SessionPart(f.name),
                                     AgentID |-> AgentPart(f.name),
                                     Todos |-> TodoRead(f).todos])
                  ELSE prev

\* the loop of scanProjectTodos over the first n entries of the todos directory
RECURSIVE TodoListsUpTo(_, _)
\* a todo scan that also keeps the lists without todos
RECURSIVE TodoListsUpTo_KeepEmpty(_, _)
TodoListsUpTo_KeepEmpty(files, n) ==
    IF n = 0 THEN <<>>
    ELSE LET prev == TodoListsUpTo_KeepEmpty(files, n - 1)
             f == files[n]
         IN  IF f.isDir \/ ~HasJSONSuffix(f.name) THEN prev
             ELSE IF SplitCount(f.name) # 2 THEN prev
             ELSE IF TodoRead(f).err # "nil" THEN prev
             ELSE Append(prev, [SessionID |-> SessionPart(f.name),
                                AgentID |-> AgentPart(f.name),
                                Todos |-> TodoRead(f).todos])

TodoListsUpTo(files, n) ==
    IF n = 0 THEN <<>>
    ELSE LET prev == TodoListsUpTo(files, n - 1)
             f == files[n]
         IN  IF f.isDir \/ ~HasJSONSuffix(f.name) THEN prev
             ELSE IF SplitCount(f.name) # 2 THEN prev
             ELSE IF TodoRead(f).err # "nil" THEN prev
             ELSE IF Len(TodoRead(f).todos) > 0
                  THEN Append(prev, [SessionID |-> SessionPart(f.name),
                                     AgentID |-> AgentPart(f.name),
                                     Todos |-> TodoRead(f).todos])
                  ELSE prev

scanProjectTodos(arch) ==
    IF arch.todosDir = "missing" THEN [err |-> "nil", todoLists |-> <<>>]
    ELSE IF arch.todosDir = "unreadable" THEN [err |-> "readdir"]
    ELSE [err |-> "nil", todoLists |-> TodoListsUpTo(arch.todoFiles, Len(arch.todoFiles))]

\* a session limit that lets one session too many through
LimitReached_OffByOne(opts, count) == opts.MaxSessions > 0 /\ count > opts.MaxSessions

\* the session limit check of ScanProjects
LimitReached(opts, count) == opts.MaxSessions > 0 /\ count >= opts.MaxSessions

\* the date filter and session limit loop of ScanProjects from session i on:
\* the project, the session count and whether the limit made the scan return
RECURSIVE FilterFrom(_, _, _, _, _)
FilterFrom(opts, sessions, i, project, count) ==
    IF i > Len(sessions) THEN [project |-> project, count |-> count, limit |-> FALSE]
    ELSE IF shouldIncludeSession(opts, sessions[i])
         THEN IF LimitReached(opts, count + 1)
              THEN [project |-> AddSession(project, sessions[i]),
                    count |-> count + 1, limit |-> TRUE]
              ELSE FilterFrom(opts, sessions, i + 1,
                              AddSession(project, sessions[i]), count + 1)
         ELSE FilterFrom(opts, sessions, i + 1, project, count)

\* the todo part of ScanProjects
RECURSIVE AddTodoLists(_, _, _)
AddTodoLists(p, tls, n) ==
    IF n = 0 THEN p ELSE AddTodoList(AddTodoLists(p, tls, n - 1), tls[n])

\* a todo part that attaches only the lists of the project's own sessions
WithTodos_OwnSessions(opts, arch, project) ==
    IF ~opts.IncludeTodos THEN project
    ELSE IF scanProjectTodos(arch).err # "nil" THEN project
    ELSE LET own(tl) == \E n \in 1..Len(project.Sessions) :
                           <<project.Sessions[n].ID>> = tl.SessionID
             tls == SelectSeq(scanProjectTodos(arch).todoLists, own)
         IN  AddTodoLists(project, tls, Len(tls))

WithTodos(opts, arch, project) ==
    IF ~opts.IncludeTodos THEN project
    ELSE IF scanProjectTodos(arch).err # "nil" THEN project
    ELSE AddTodoLists(project, scanProjectTodos(arch).todoLists,
                      Len(scanProjectTodos(arch).todoLists))

\* what os.ReadFile gives for CLAUDE.md: an error or the content
NotRead == [err |-> "none"]
ReadFileResults ==
    { [err |-> "notexist"], [err |-> "permission"],
      [err |-> "nil", content |-> ""], [err |-> "nil", content |-> "# Config"] }

\* a ScanClaudeConfig that reports every read failure
ScanClaudeConfig_NoNotExist(r) ==
    IF r.err # "nil" THEN [content |-> "", err |-> "failed to read CLAUDE.md"]
    ELSE [content |-> r.content, err |-> "nil"]

\* Scanner.ScanClaudeConfig, given what os.ReadFile returns
ScanClaudeConfig(r) ==
    IF r.err # "nil"
    THEN IF r.err = "notexist" THEN [content |-> "", err |-> "nil"]
         ELSE [content |-> "", err |-> "failed to read CLAUDE.md"]
    ELSE [content |-> r.content, err |-> "nil"]

\* os.Stat(projectsPath) reports that the path does not exist
StatNotExist(arch) == arch.projectsDir \in {"rootmissing", "missing"}
\* an unreadable projects directory taken for an empty one
ReadDirFails_Ignored(arch) == FALSE

\* os.ReadDir(projectsPath) fails
ReadDirFails(arch) == arch.projectsDir # "ok"

(***************************************************************************)
(* Messages built by hand (struct literals, as the tests do) and the       *)
(* payloads ParseContent is tried on.                                      *)
(***************************************************************************)
Msg(type, userType, ts, payload, content) ==
    [UUID |-> "msg1", ParentUUID |-> "nil", SessionID |-> "session1",
     Type |-> type, UserType |-> userType, Timestamp |-> ts,
     Message |-> payload, Content |-> content]

MessageTypes == {MessageTypeUser, MessageTypeAssistant, "summary"}
UserTypes == {"external", "internal", ""}

ToolResultJSON ==
    JObj([tool_use_id |-> JStr("tool_123"), type |-> JStr("tool_result"),
          content |-> JObj([result |-> JStr("success")])])
TextBlockJSON == JObj([type |-> JStr("text"), text |-> JStr("Hi!")])
UserPayload(c) == JObj([role |-> JStr("user"), content |-> c])
AssistantPayload(c, u) ==
    JObj([id |-> JStr("asst1"), type |-> JStr("message"), role |-> JStr("assistant"),
          model |-> JStr("claude-3"), content |-> c, usage |-> u])
UsageJSON(i, o, cc, cr) ==
    JObj([input_tokens |-> JNum(i), output_tokens |-> JNum(o),
          cache_creation_input_tokens |-> JNum(cc),
          cache_read_input_tokens |-> JNum(cr)])

Payloads ==
    { JAbsent, JInvalid, JNull, JStr("hi"), JNum(7), JArr(<<>>),
      JObj([foo |-> JNull]),
      JObj([role |-> JStr("user")]),
      JObj([role |-> JNum(5), content |-> JStr("Hello")]),
      UserPayload(JStr("Hello")),
      UserPayload(JNull),
      UserPayload(JNum(5)),
      UserPayload(JBool),
      UserPayload(JObj([foo |-> JNull])),
      UserPayload(JArr(<<>>)),
      UserPayload(JArr(<<ToolResultJSON>>)),
      UserPayload(JArr(<<ToolResultJSON, ToolResultJSON>>)),
      UserPayload(JArr(<<TextBlockJSON>>)),
      UserPayload(JArr(<<JNull>>)),
      UserPayload(JArr(<<JStr("x")>>)),
      UserPayload(JArr(<<ToolResultJSON, JNum(1)>>)),
      UserPayload(JArr(<<JObj([tool_use_id |-> JNum(7), type |-> JStr("tool_result"),
                               content |-> JNull])>>)),
      AssistantPayload(JArr(<<TextBlockJSON>>), UsageJSON(5, 10, 0, 0)),
      AssistantPayload(JArr(<<TextBlockJSON>>), UsageJSON(1, 2, 4, 8)),
      AssistantPayload(JArr(<<TextBlockJSON>>), JNull),
      AssistantPayload(JArr(<<TextBlockJSON>>), JStr("x")),
      AssistantPayload(JStr("End"), JNull),
      JObj([role |-> JStr("assistant"), content |-> JStr("End")]),
      JObj([role |-> JStr("assistant"), content |-> JArr(<<TextBlockJSON>>)]) }

ParseMessages ==
    { Msg(ty, ut, 1, p, NilContent) : ty \in MessageTypes, ut \in UserTypes, p \in Payloads }

Usage(i, o, cc, cr) ==
    [nil |-> FALSE, InputTokens |-> i, OutputTokens |-> o,
     CacheCreationInputTokens |-> cc, CacheReadInputTokens |-> cr]

SampleContents ==
    { NilContent, UserMessage("user", "Hello"), ToolResultList(<<>>),
      AssistantMessage("claude-3", <<>>, NilUsage),
      AssistantMessage("claude-3", <<>>, Usage(5, 10, 0, 0)),
      AssistantMessage("claude-3", <<>>, Usage(1, 2, 4, 8)) }

\* the messages AddMessage is called with: every timestamp, and every
\* combination of type and content
SessionMessages ==
    { Msg(MessageTypeUser, "", t, JAbsent, NilContent) : t \in Times }
    \cup { Msg(ty, "", 1, JAbsent, c) : ty \in MessageTypes, c \in SampleContents }

(***************************************************************************)
(* SpecSession: AddMessage calls on an initially empty Session.            *)
(* SpecParse: one ParseContent call on a message.                          *)
(***************************************************************************)
NoMsg == Msg("", "", 0, JAbsent, NilContent)

SessionIdle == session = EmptySession
ParseIdle == msg = NoMsg /\ msgOrig = NoMsg /\ parseErr = "none"
ReadIdle ==
    /\ file = <<>> /\ fileOpen = TRUE /\ lineNum = 0
    /\ rsSession = EmptySession /\ rsWarnings = <<>> /\ rsResult = "idle"
    /\ stLineNum = 0 /\ stDelivered = <<>> /\ stWarnings = <<>>
    /\ stResult = "idle" /\ cbFailAt = 0
ScanIdle ==
    /\ archive = <<>> /\ options = <<>> /\ pc = "idle" /\ entryIdx = 0
    /\ projects = <<>> /\ sessionCount = 0 /\ scanResult = "idle"
    /\ visited = {} /\ filesRead = {}
    /\ claudeMd = NotRead /\ configResult = NotRead
NoBatch == [TotalItems |-> 0, SuccessCount |-> 0, Files |-> <<>>, Errors |-> <<>>]
CLIIdle ==
    /\ cfg = <<>> /\ cliPc = "idle" /\ exitCode = -1 /\ cliErr = ""
    /\ stdout = <<>> /\ disk = {} /\ batchIdx = 0 /\ batchResult = NoBatch

InitSession == SessionIdle /\ ParseIdle /\ ReadIdle /\ ScanIdle /\ CLIIdle

AddMessageStep ==
    /\ Len(session.Messages) < MaxMessages
    /\ \E m \in SessionMessages : session' = AddMessage(session, m)
    /\ UNCHANGED <<parseVars, readVars, scanVars, cliVars>>

NextSession == AddMessageStep

SpecSession == InitSession /\ [][NextSession]_vars

InitParse ==
    /\ msg \in ParseMessages /\ msgOrig = msg /\ parseErr = "none"
    /\ SessionIdle /\ ReadIdle /\ ScanIdle /\ CLIIdle

ParseContentStep ==
    /\ parseErr = "none"
    /\ msg' = ParseContent(msg).msg
    /\ parseErr' = IF ParseContent(msg).err THEN "error" ELSE "nil"
    /\ UNCHANGED <<msgOrig, sessionVars, readVars, scanVars, cliVars>>

NextParse == ParseContentStep

SpecParse == InitParse /\ [][NextParse]_vars

(***************************************************************************)
(* SpecRead: JSONLReader.ReadSession on one file, or StreamJSONLMessages on *)
(* its content, a step per line.                                           *)
(***************************************************************************)
Record(fields) == TextLine(JObj(fields))

LUser1 ==
    Record([uuid |-> JStr("msg1"), parentUuid |-> JNull, sessionId |-> JStr("session1"),
            type |-> JStr("user"), userType |-> JStr("external"),
            timestamp |-> JStr(TimeStrings[2]), message |-> UserPayload(JStr("Hello"))])
LAsst2 ==
    Record([uuid |-> JStr("msg2"), parentUuid |-> JStr("msg1"),
            sessionId |-> JStr("session1"), type |-> JStr("assistant"),
            timestamp |-> JStr(TimeStrings[3]),
            message |-> AssistantPayload(JArr(<<TextBlockJSON>>), UsageJSON(5, 10, 0, 0))])
\* an assistant record whose payload does not fit AssistantMessage
LAsst3 ==
    Record([uuid |-> JStr("msg3"), sessionId |-> JStr("session2"),
            type |-> JStr("assistant"), timestamp |-> JStr(TimeStrings[4]),
            message |-> JObj([role |-> JStr("assistant"), content |-> JStr("End")])])
\* an external user record whose content matches no known shape
LUser4 ==
    Record([uuid |-> JStr("msg4"), sessionId |-> JStr("session2"),
            type |-> JStr("user"), userType |-> JStr("external"),
            timestamp |-> JStr(TimeStrings[3]), message |-> UserPayload(JNum(5))])
\* a record without session id, timestamp and payload
LBare == Record([uuid |-> JStr("msg5"), type |-> JStr("user")])
LNull == TextLine(JNull)
LArray == TextLine(JArr(<<>>))
LBadTime == Record([uuid |-> JStr("msg6"), timestamp |-> JStr("yesterday")])
LBadUUID == Record([uuid |-> JNum(5), type |-> JStr("user")])
LNotJSON == TextLine(JInvalid)

\* the record of LUser1 on a line of exactly maxCapacity bytes
LFull == FullLine(LUser1.j)

RecordLines ==
    { EmptyLine, SpaceLine, TooLongLine, LFull, LNotJSON, LArray, LBadTime, LBadUUID,
      LNull, LBare, LUser1, LAsst2, LAsst3, LUser4 }

\* the calls at which the callback returns an error: never, or at the second
CallbackFailures == {0, 2}

RECURSIVE SeqsUpTo(_, _)
SeqsUpTo(S, n) ==
    IF n = 0 THEN { <<>> }
    ELSE LET shorter == SeqsUpTo(S, n - 1)
         IN  shorter \cup { Append(q, x) : q \in { r \in shorter : Len(r) = n - 1 }, x \in S }

InitRead ==
    /\ fileOpen \in BOOLEAN
    /\ file \in IF fileOpen THEN SeqsUpTo(RecordLines, MaxLines) ELSE { <<LUser1>> }
    /\ lineNum = 0 /\ rsSession = EmptySession /\ rsWarnings = <<>>
    /\ rsResult = "start"
    /\ stLineNum = 0 /\ stDelivered = <<>> /\ stWarnings = <<>>
    /\ stResult = "start" /\ cbFailAt = 0
    /\ SessionIdle /\ ParseIdle /\ ScanIdle /\ CLIIdle

\* os.Open fails
OpenFails ==
    /\ rsResult = "start" /\ ~fileOpen
    /\ rsResult' = "failed to open file"
    /\ UNCHANGED <<file, fileOpen, lineNum, rsSession, rsWarnings, streamVars,
                   sessionVars, parseVars, scanVars, cliVars>>

OpenFile ==
    /\ rsResult = "start" /\ fileOpen
    /\ rsResult' = "scanning"
    /\ UNCHANGED <<file, fileOpen, lineNum, rsSession, rsWarnings, streamVars,
                   sessionVars, parseVars, scanVars, cliVars>>

ReadLineStep ==
    /\ rsResult = "scanning" /\ ~ScanStops(file, lineNum)
    /\ lineNum' = lineNum + 1
    /\ rsSession' = ReadLine(rsSession, file[lineNum + 1])
    /\ rsWarnings' = IF LineWarns(file[lineNum + 1])
                     THEN Append(rsWarnings, lineNum + 1) ELSE rsWarnings
    /\ UNCHANGED <<file, fileOpen, rsResult, streamVars, sessionVars, parseVars,
                   scanVars, cliVars>>

ReadFinish ==
    /\ rsResult = "scanning" /\ ScanStops(file, lineNum)
    /\ rsResult' = ReadReturn(file, lineNum, rsSession).err
    /\ UNCHANGED <<file, fileOpen, lineNum, rsSession, rsWarnings, streamVars,
                   sessionVars, parseVars, scanVars, cliVars>>

\* StreamJSONLMessages is called on the content instead, with a callback
\* that never fails or fails at a later call
StreamBegin ==
    /\ rsResult = "start" /\ stResult = "start" /\ fileOpen
    /\ rsResult' = "idle" /\ stResult' = "streaming"
    /\ cbFailAt' \in CallbackFailures
    /\ UNCHANGED <<file, fileOpen, lineNum, rsSession, rsWarnings, stLineNum,
                   stDelivered, stWarnings, sessionVars, parseVars, scanVars, cliVars>>

StreamLineStep ==
    /\ stResult = "streaming" /\ ~ScanStops(file, stLineNum)
    /\ stLineNum' = stLineNum + 1
    /\ stWarnings' = IF StreamLine(file[stLineNum + 1]).warn
                     THEN Append(stWarnings, stLineNum + 1) ELSE stWarnings
    /\ stDelivered' = IF StreamLine(file[stLineNum + 1]).call
                      THEN Append(stDelivered, StreamLine(file[stLineNum + 1]).msg)
                      ELSE stDelivered
    /\ stResult' = IF StreamLine(file[stLineNum + 1]).call
                   THEN IF CallbackFails(cbFailAt, Len(stDelivered) + 1)
                        THEN "callback error" ELSE stResult
                   ELSE stResult
    /\ UNCHANGED <<file, fileOpen, lineNum, rsSession, rsWarnings, rsResult, cbFailAt,
                   sessionVars, parseVars, scanVars, cliVars>>

StreamFinish ==
    /\ stResult = "streaming" /\ ScanStops(file, stLineNum)
    /\ stResult' = StreamReturn(file, stLineNum)
    /\ UNCHANGED <<file, fileOpen, lineNum, rsSession, rsWarnings, rsResult,
                   stLineNum, stDelivered, stWarnings, cbFailAt,
                   sessionVars, parseVars, scanVars, cliVars>>

NextRead ==
    \/ OpenFails \/ OpenFile \/ ReadLineStep \/ ReadFinish
    \/ StreamBegin \/ StreamLineStep \/ StreamFinish

SpecRead == InitRead /\ [][NextRead]_vars

(***************************************************************************)
(* SpecScan: Scanner.ScanProjects on an archive, a step per entry of the   *)
(* projects directory.                                                     *)
(***************************************************************************)
SessionFile(lines) == [kind |-> "jsonl", openable |-> TRUE, lines |-> lines]
FSpan == SessionFile(<<LAsst3, LNotJSON, LUser1>>)     \* 07-16, then 07-14
FMid == SessionFile(<<LAsst2>>)                        \* 07-15
FEarly == SessionFile(<<LUser1>>)                      \* 07-14
FBare == SessionFile(<<LBare>>)                        \* zero time
FEmpty == SessionFile(<<>>)
FMalformed == SessionFile(<<LNotJSON, SpaceLine, EmptyLine>>)
FTooLong == SessionFile(<<LUser1, TooLongLine>>)
FUnopenable == [kind |-> "jsonl", openable |-> FALSE, lines |-> <<>>]
FOther == [kind |-> "other", openable |-> TRUE, lines |-> <<LUser1>>]
FSubDir == [kind |-> "dir", openable |-> TRUE, lines |-> <<>>]

\* the listings of a project directory
DirListings ==
    { <<FSpan>>,
      <<FMalformed, FMid, FUnopenable, FEarly>>,
      <<FEmpty, FTooLong, FOther, FSubDir>>,
      <<FBare, FSpan, FMid>> }

\* names of entries of the projects directory, in os.ReadDir's order
AllNames ==
    << <<"-", "a">>, <<"-", "a", "-", "b">>, <<"-", "b">>, <<"a", "b">>,
       <<"b">>, <<"b", "-", "a">> >>
EntryNames == SubSeq(AllNames, 1, MaxProjects)

EntriesFor(name) ==
    { [name |-> name, isDir |-> FALSE, readable |-> TRUE, files |-> <<>>],
      [name |-> name, isDir |-> TRUE, readable |-> FALSE, files |-> <<>>] }
    \cup { [name |-> name, isDir |-> TRUE, readable |-> TRUE, files |-> l] : l \in DirListings }

\* the listings of the projects directory: for each name in order, no entry
\* or one of the entries of that name
RECURSIVE ListingsUpTo(_)
ListingsUpTo(n) ==
    IF n = 0 THEN { <<>> }
    ELSE LET shorter == ListingsUpTo(n - 1)
         IN  shorter \cup { Append(l, e) : l \in shorter, e \in EntriesFor(EntryNames[n]) }

TodoJSON(id, status) ==
    JObj([id |-> JStr(id), content |-> JStr("Test todo"), status |-> JStr(status),
          priority |-> JStr("high")])
TodoFile(name, json) == [name |-> name, isDir |-> FALSE, readable |-> TRUE, json |-> json]
TodoFiles ==
    << TodoFile(<<"-agent-", ".json">>, JArr(<<TodoJSON("3", "pending")>>)),
       TodoFile(<<"notes", ".json">>, JArr(<<TodoJSON("4", "pending")>>)),
       TodoFile(<<"session1", "-agent-", "agent1", ".json">>,
                JArr(<<TodoJSON("1", "pending"), TodoJSON("2", "completed")>>)),
       TodoFile(<<"session1", "-agent-", "agent2", ".json">>, JArr(<<>>)),
       TodoFile(<<"session2", "-agent-", "agent1", ".json">>, JInvalid),
       [name |-> <<"session3", "-agent-", "agent1", ".json">>, isDir |-> FALSE,
        readable |-> FALSE, json |-> JNull],
       TodoFile(<<"session4", "-agent-", "agent1", ".json">>, JNull),
       TodoFile(<<"session5", "-agent-", "agent1", ".json">>, JArr(<<JNull>>)),
       TodoFile(<<"session6", "-agent-", "agent1", ".json">>,
                JObj([todos |-> JArr(<<TodoJSON("6", "pending")>>)])),
       TodoFile(<<"session7", "-agent-", "agent1", ".json">>,
                JArr(<<JObj([id |-> JNum(7)])>>)),
       TodoFile(<<"session9", "-agent-", "agent1", ".json">>,
                JArr(<<TodoJSON("5", "completed")>>)) >>

\* the todos directory and whether todos are asked for
TodoSetups ==
    { [IncludeTodos |-> FALSE, todosDir |-> "ok", todoFiles |-> TodoFiles],
      [IncludeTodos |-> TRUE, todosDir |-> "ok", todoFiles |-> TodoFiles],
      [IncludeTodos |-> TRUE, todosDir |-> "missing", todoFiles |-> <<>>],
      [IncludeTodos |-> TRUE, todosDir |-> "unreadable", todoFiles |-> <<>>] }

DateRanges ==
    { <<NilTime, NilTime>>, <<NilTime, PtrTime(2)>>, <<PtrTime(2), PtrTime(3)>> }

PathFilters ==
    { <<>>, << <<"/", "a">> >>, << <<"-", "a">>, <<"a", "/", "b">> >> }

InitScan ==
    /\ \E dir \in {"ok", "missing", "rootmissing", "unreadable"},
          t \in TodoSetups, dr \in DateRanges, pf \in PathFilters, cap \in 0..MaxCap :
          /\ archive \in { [projectsDir |-> dir, entries |-> l,
                            todosDir |-> t.todosDir, todoFiles |-> t.todoFiles] :
                           l \in IF dir = "ok" THEN ListingsUpTo(MaxProjects) ELSE { <<>> } }
          /\ options = [StartDate |-> dr[1], EndDate |-> dr[2], ProjectPaths |-> pf,
                        IncludeTodos |-> t.IncludeTodos, MaxSessions |-> cap]
    /\ pc = "start" /\ entryIdx = 0 /\ projects = <<>> /\ sessionCount = 0
    /\ scanResult = "running" /\ visited = {} /\ filesRead = {}
    /\ claudeMd = NotRead /\ configResult = NotRead
    /\ SessionIdle /\ ParseIdle /\ ReadIdle /\ CLIIdle

\* the projects directory does not exist
ScanNotFound ==
    /\ pc = "start" /\ StatNotExist(archive)
    /\ pc' = "done" /\ scanResult' = "projects directory not found"
    /\ projects' = <<>>
    /\ UNCHANGED <<archive, options, configVars, entryIdx, sessionCount, visited, filesRead,
                   sessionVars, parseVars, readVars, cliVars>>

\* the projects directory cannot be listed
ScanReadDirFails ==
    /\ pc = "start" /\ ~StatNotExist(archive) /\ ReadDirFails(archive)
    /\ pc' = "done" /\ scanResult' = "failed to read projects directory"
    /\ projects' = <<>>
    /\ UNCHANGED <<archive, options, configVars, entryIdx, sessionCount, visited, filesRead,
                   sessionVars, parseVars, readVars, cliVars>>

ScanBegin ==
    /\ pc = "start" /\ ~StatNotExist(archive) /\ ~ReadDirFails(archive)
    /\ pc' = "loop" /\ entryIdx' = 1
    /\ UNCHANGED <<archive, options, configVars, projects, sessionCount, scanResult, visited,
                   filesRead, sessionVars, parseVars, readVars, cliVars>>

AtEntry == pc = "loop" /\ entryIdx <= Len(archive.entries)
Entry == archive.entries[entryIdx]

\* not a directory, or rejected by the project path filter
ScanSkipEntry ==
    /\ AtEntry
    /\ IF Entry.isDir THEN ~shouldProcessProject(options, Entry.name) ELSE TRUE
    /\ entryIdx' = entryIdx + 1
    /\ UNCHANGED <<archive, options, configVars, pc, projects, sessionCount, scanResult, visited,
                   filesRead, sessionVars, parseVars, readVars, cliVars>>

Processed == IF Entry.isDir THEN shouldProcessProject(options, Entry.name) ELSE FALSE

\* scanProjectSessions fails: a warning, and on to the next entry
ScanSessionsFail ==
    /\ AtEntry /\ Processed
    /\ scanProjectSessions(Entry, Entry.name).err # "nil"
    /\ entryIdx' = entryIdx + 1
    /\ visited' = visited \cup {entryIdx}
    /\ UNCHANGED <<archive, options, configVars, pc, projects, sessionCount, scanResult,
                   filesRead, sessionVars, parseVars, readVars, cliVars>>

FilesReadAt(i) ==
    { <<i, k>> : k \in scanProjectSessions(archive.entries[i], archive.entries[i].name).read }

Filtered ==
    FilterFrom(options, scanProjectSessions(Entry, Entry.name).sessions, 1,
               NewProject(Entry.name), sessionCount)

\* the session limit is reached inside this project: return at once
ScanProjectLimit ==
    /\ AtEntry /\ Processed
    /\ scanProjectSessions(Entry, Entry.name).err = "nil"
    /\ Filtered.limit
    /\ visited' = visited \cup {entryIdx}
    /\ filesRead' = filesRead \cup FilesReadAt(entryIdx)
    /\ sessionCount' = Filtered.count
    /\ projects' = Append(projects, Filtered.project)
    /\ pc' = "done" /\ scanResult' = "nil"
    /\ UNCHANGED <<archive, options, configVars, entryIdx, sessionVars, parseVars, readVars, cliVars>>

\* a scan that appends every scanned project
KeepProject_Always(project) == TRUE

\* the check before the project is appended to the result
KeepProject(project) == Len(project.Sessions) > 0

\* the project is scanned to its end and kept when it has a session
ScanProject ==
    /\ AtEntry /\ Processed
    /\ scanProjectSessions(Entry, Entry.name).err = "nil"
    /\ ~Filtered.limit
    /\ visited' = visited \cup {entryIdx}
    /\ filesRead' = filesRead \cup FilesReadAt(entryIdx)
    /\ sessionCount' = Filtered.count
    /\ projects' = IF KeepProject(Filtered.project)
                   THEN Append(projects, WithTodos(options, archive, Filtered.project))
                   ELSE projects
    /\ entryIdx' = entryIdx + 1
    /\ UNCHANGED <<archive, options, configVars, pc, scanResult, sessionVars, parseVars, readVars, cliVars>>

ScanReturn ==
    /\ pc = "loop" /\ entryIdx > Len(archive.entries)
    /\ pc' = "done" /\ scanResult' = "nil"
    /\ UNCHANGED <<archive, options, configVars, entryIdx, projects, sessionCount, visited,
                   filesRead, sessionVars, parseVars, readVars, cliVars>>

\* after the scan, ScanClaudeConfig is called on the same Scanner
ScanClaudeConfigStep ==
    /\ pc = "done"
    /\ \E r \in ReadFileResults :
          /\ IF archive.projectsDir = "rootmissing" THEN r.err = "notexist" ELSE TRUE
          /\ claudeMd' = r
          /\ configResult' = ScanClaudeConfig(r)
    /\ pc' = "config"
    /\ UNCHANGED <<archive, options, entryIdx, projects, sessionCount, scanResult,
                   visited, filesRead, sessionVars, parseVars, readVars, cliVars>>

NextScan ==
    \/ ScanNotFound \/ ScanReadDirFails \/ ScanBegin \/ ScanSkipEntry
    \/ ScanSessionsFail \/ ScanProjectLimit \/ ScanProject \/ ScanReturn
    \/ ScanClaudeConfigStep

SpecScan == InitScan /\ [][NextScan]_vars

(***************************************************************************)
(* cmd/cc-export/main.go and exporter/file.go: the command line tool.      *)
(* The local time zone is taken to be UTC.                                 *)
(***************************************************************************)
\* the calendar day (as days since 2024-06-30) and the second of the day of
\* the instants of TimeStrings; the zero time is day 0
Clock ==
    << [day |-> 0, sec |-> 0], [day |-> 14, sec |-> 36000],
       [day |-> 15, sec |-> 43200], [day |-> 16, sec |-> 54000],
       [day |-> 20, sec |-> 0], [day |-> 20, sec |-> 43200], [day |-> 20, sec |-> 86399],
       [day |-> 21, sec |-> 0], [day |-> 21, sec |-> 1] >>
DayOf(t) == Clock[t + 1].day
SecondOf(t) == Clock[t + 1].sec

\* t.Add(24 * time.Hour) for the instants whose next day is on the clock
Add24Hours(t) ==
    CHOOSE u \in 0..(Len(Clock) - 1) :
        DayOf(u) = DayOf(t) + 1 /\ SecondOf(u) = SecondOf(t)

\* the date/time arguments tried, with the layout of parseDateTime's list
\* that accepts each and the instant it denotes
TimeArgs ==
    << [s |-> "2024-07-20", layout |-> "2006-01-02", t |-> 4],
       [s |-> "2024-07-20 12:00", layout |-> "2006-01-02 15:04", t |-> 5],
       [s |-> "2024-07-20 23:59:59", layout |-> "2006-01-02 15:04:05", t |-> 6],
       [s |-> "2024-07-21T00:00:00Z", layout |-> "RFC3339", t |-> 7] >>
TimeArg(s) == TimeArgs[CHOOSE i \in 1..Len(TimeArgs) : TimeArgs[i].s = s]

parseDateTime(s) ==
    IF \E i \in 1..Len(TimeArgs) : TimeArgs[i].s = s THEN Ok(TimeArg(s).t) ELSE Fail

isDateOnly(s) ==
    IF \E i \in 1..Len(TimeArgs) : TimeArgs[i].s = s
    THEN TimeArg(s).layout = "2006-01-02" ELSE FALSE

\* validateConfig: the error, or "nil"
validateConfig(config, arch) ==
    IF config.outputPath = "" THEN "output path is required"
    ELSE IF config.sourcePath = "" THEN "could not determine .claude directory path"
    ELSE IF arch.projectsDir = "rootmissing" THEN ".claude directory not found"
    ELSE IF config.format = "html" THEN "HTML format not yet implemented"
    ELSE IF config.format \notin {"json", "markdown"} THEN "unsupported format"
    ELSE IF config.startTime # "" /\ ~parseDateTime(config.startTime).ok
         THEN "invalid start time format"
    ELSE IF config.endTime # "" /\ ~parseDateTime(config.endTime).ok
         THEN "invalid end time format"
    ELSE "nil"

\* the end bound run computes from --end-time
EndBound(endTime) ==
    IF isDateOnly(endTime) THEN Add24Hours(parseDateTime(endTime).v)
    ELSE parseDateTime(endTime).v

\* the ScanOptions run builds
ScanOptionsOf(config) ==
    [ProjectPaths |-> config.projectPaths, IncludeTodos |-> config.includeTodos,
     MaxSessions |-> config.maxSessions,
     StartDate |-> IF config.startTime # "" THEN PtrTime(parseDateTime(config.startTime).v)
                   ELSE NilTime,
     EndDate |-> IF config.endTime # "" THEN PtrTime(EndBound(config.endTime)) ELSE NilTime]

\* filepath.Base on a path given as its characters
TrimSlashes(path) ==
    IF \A i \in 1..Len(path) : path[i] = "/" THEN <<>>
    ELSE SubSeq(path, 1, CHOOSE i \in 1..Len(path) :
                            /\ path[i] # "/"
                            /\ \A j \in (i + 1)..Len(path) : path[j] = "/")
Base(path) ==
    IF path = <<>> THEN <<".">>
    ELSE IF TrimSlashes(path) = <<>> THEN <<"/">>
    ELSE LET p == TrimSlashes(path)
             slashes == { i \in 1..Len(p) : p[i] = "/" }
         IN  IF slashes = {} THEN p
             ELSE SubSeq(p, (CHOOSE i \in slashes : \A j \in slashes : j <= i) + 1, Len(p))

GetProjectName(p) == Base(p.Path)

\* the file extension batchExport picks
ExtOf(format) == IF format = "json" THEN ".json" ELSE IF format = "html" THEN ".html" ELSE ".md"

\* filepath.Join(outputDir, fmt.Sprintf("project_%s" + ext, name)), as the
\* pieces of the path
BatchFileName(outputDir, ext, p) == <<outputDir, "/project_">> \o GetProjectName(p) \o <<ext>>

\* a file name given on the command line, as the pieces of the path
FileNameOf(outputPath) == IF outputPath = "" THEN <<>> ELSE <<outputPath>>

\* FileExporter.ExportToFile: where the export goes, given whether the file
\* can be created and written
ExportToFile(filename, writable) ==
    IF filename = <<>> \/ filename = <<"-">> THEN [err |-> "nil", dest |-> "stdout"]
    ELSE IF ~writable THEN [err |-> "failed to create file"]
    ELSE [err |-> "nil", dest |-> "file"]

(***************************************************************************)
(* SpecCLI: one run of cc-export: validateConfig, run, and singleExport or *)
(* batchExport with a step per project of BatchExporter.ExportProjects.    *)
(***************************************************************************)
\* a session file whose only record has the k-th timestamp of TimeStrings
ClockRecord(k) ==
    Record([uuid |-> JStr("msg1"), parentUuid |-> JNull, sessionId |-> JStr("session1"),
            type |-> JStr("user"), userType |-> JStr("external"),
            timestamp |-> JStr(TimeStrings[k]), message |-> UserPayload(JStr("Hello"))])
FClock(k) == SessionFile(<<ClockRecord(k)>>)
\* sessions ending on 07-20 at noon, on 07-20 at 23:59:59 and on 07-21 at
\* 00:00:00
ClockListing == <<FClock(6), FClock(7), FClock(8)>>

\* the listings of the projects directory: up to MaxBatch of the names
RECURSIVE NamesUpTo(_)
NamesUpTo(n) ==
    IF n = 0 THEN { <<>> }
    ELSE NamesUpTo(n - 1)
         \cup { Append(l, AllNames[n]) : l \in { x \in NamesUpTo(n - 1) : Len(x) < MaxBatch } }

\* a project directory with sessions, a plain file, an unreadable directory
EntryKinds(name) ==
    << [name |-> name, isDir |-> TRUE, readable |-> TRUE, files |-> ClockListing],
       [name |-> name, isDir |-> FALSE, readable |-> TRUE, files |-> <<>>],
       [name |-> name, isDir |-> TRUE, readable |-> FALSE, files |-> <<>>] >>

\* the archives tried: every entry a project directory with sessions, but
\* for the first, which may also be a plain file or an unreadable directory
CLIArchives ==
    { [projectsDir |-> "ok",
       entries |-> [i \in 1..Len(l) |-> EntryKinds(l[i])[IF i = 1 THEN kind ELSE 1]],
       todosDir |-> "missing", todoFiles |-> <<>>] :
      l \in NamesUpTo(Len(AllNames)), kind \in 1..3 }
    \cup { [projectsDir |-> d, entries |-> <<>>, todosDir |-> "missing",
            todoFiles |-> <<>>] : d \in {"missing", "rootmissing", "unreadable"} }

\* the configs parseFlags can build from the options tried
Configs ==
    [sourcePath : {"", "home/.claude"},
     outputPath : {"", "-", "out"},
     format : {"json", "html", "xml"},
     startTime : {"", "2024-07-20", "07/20/2024"},
     endTime : {"", "2024-07-20", "2024-07-20 23:59:59", "tomorrow"},
     batchExport : BOOLEAN,
     projectPaths : { <<>> }, includeTodos : {TRUE}, maxSessions : {0, 1}]

InitCLI ==
    /\ cfg \in Configs /\ archive \in CLIArchives
    /\ cliPc = "start" /\ exitCode = -1 /\ cliErr = ""
    /\ stdout = <<>> /\ disk = {} /\ batchIdx = 0 /\ batchResult = NoBatch
    /\ options = <<>> /\ pc = "idle" /\ entryIdx = 0 /\ projects = <<>>
    /\ sessionCount = 0 /\ scanResult = "idle" /\ visited = {} /\ filesRead = {}
    /\ claudeMd = NotRead /\ configResult = NotRead
    /\ SessionIdle /\ ParseIdle /\ ReadIdle

\* main: validateConfig fails, exit status 1
CLIValidateFails ==
    /\ cliPc = "start" /\ validateConfig(cfg, archive) # "nil"
    /\ cliPc' = "exit" /\ exitCode' = 1 /\ cliErr' = validateConfig(cfg, archive)
    /\ UNCHANGED <<cfg, stdout, disk, batchIdx, batchResult, archive, options, projects,
                   scanResult, scanAux, sessionVars, parseVars, readVars>>

\* main: validateConfig passes; run builds the ScanOptions and calls
\* Scanner.ScanProjects, whose steps are the actions of SpecScan
CLIValidateOK ==
    /\ cliPc = "start" /\ validateConfig(cfg, archive) = "nil"
    /\ cliPc' = "scan" /\ options' = ScanOptionsOf(cfg)
    /\ pc' = "start" /\ scanResult' = "running"
    /\ UNCHANGED <<cfg, exitCode, cliErr, stdout, disk, batchIdx, batchResult, archive,
                   projects, entryIdx, sessionCount, visited, filesRead, configVars,
                   sessionVars, parseVars, readVars>>

\* run after ScanProjects returned: the scan failed, gave no project, or
\* gave the projects to export
CLIRun ==
    /\ cliPc = "scan" /\ pc = "done"
    /\ IF scanResult # "nil"
       THEN /\ cliPc' = "exit" /\ exitCode' = 1 /\ cliErr' = "failed to scan projects"
            /\ UNCHANGED stdout
       ELSE IF Len(projects) = 0
       THEN /\ stdout' = Append(stdout, "No projects found matching the criteria")
            /\ cliPc' = "exit" /\ exitCode' = 0
            /\ UNCHANGED cliErr
       ELSE /\ cliPc' = IF cfg.batchExport THEN "batch" ELSE "single"
            /\ UNCHANGED <<exitCode, cliErr, stdout>>
    /\ UNCHANGED <<cfg, disk, batchIdx, batchResult, scanVars, sessionVars,
                   parseVars, readVars>>

\* singleExport: ExportToFile on the output path
CLISingleExport ==
    /\ cliPc = "single"
    /\ \E writable \in BOOLEAN :
          LET r == ExportToFile(FileNameOf(cfg.outputPath), writable)
          IN  IF r.err # "nil"
              THEN /\ exitCode' = 1 /\ cliErr' = "export failed"
                   /\ UNCHANGED <<stdout, disk>>
              ELSE /\ exitCode' = 0 /\ cliErr' = ""
                   /\ stdout' = IF r.dest = "stdout"
                                THEN stdout \o <<"export", "Successfully exported">>
                                ELSE Append(stdout, "Successfully exported")
                   /\ disk' = IF r.dest = "file"
                              THEN disk \cup { FileNameOf(cfg.outputPath) } ELSE disk
    /\ cliPc' = "exit"
    /\ UNCHANGED <<cfg, batchIdx, batchResult, archive, options, projects, scanResult,
                   scanAux, sessionVars, parseVars, readVars>>

\* batchExport: os.MkdirAll on the output path, then ExportProjects begins
CLIBatchBegin ==
    /\ cliPc = "batch"
    /\ \E made \in BOOLEAN :
          IF made
          THEN /\ cliPc' = "batchloop" /\ batchIdx' = 1
               /\ batchResult' = [NoBatch EXCEPT !.TotalItems = Len(projects)]
               /\ UNCHANGED <<exitCode, cliErr>>
          ELSE /\ cliPc' = "exit" /\ exitCode' = 1
               /\ cliErr' = "failed to create output directory"
               /\ UNCHANGED <<batchIdx, batchResult>>
    /\ UNCHANGED <<cfg, stdout, disk, archive, options, projects, scanResult,
                   scanAux, sessionVars, parseVars, readVars>>

\* one iteration of the loop of BatchExporter.ExportProjects
CLIBatchExportOne ==
    /\ cliPc = "batchloop" /\ batchIdx <= Len(projects)
    /\ \E writable \in BOOLEAN :
          LET filename == BatchFileName(cfg.outputPath, ExtOf(cfg.format), projects[batchIdx])
              r == ExportToFile(filename, writable)
          IN  IF r.err # "nil"
              THEN /\ batchResult' =
                        [batchResult EXCEPT !.Errors = Append(@, projects[batchIdx].ID)]
                   /\ UNCHANGED <<stdout, disk>>
              ELSE /\ batchResult' =
                        [batchResult EXCEPT !.SuccessCount = @ + 1,
                                            !.Files = Append(@, filename)]
                   /\ stdout' = IF r.dest = "stdout" THEN Append(stdout, "export") ELSE stdout
                   /\ disk' = IF r.dest = "file" THEN disk \cup { filename } ELSE disk
    /\ batchIdx' = batchIdx + 1
    /\ UNCHANGED <<cfg, cliPc, exitCode, cliErr, archive, options, projects, scanResult,
                   scanAux, sessionVars, parseVars, readVars>>

\* ExportProjects returns; batchExport prints the summary and returns nil
CLIBatchDone ==
    /\ cliPc = "batchloop" /\ batchIdx > Len(projects)
    /\ stdout' = Append(stdout, "Exported items")
    /\ cliPc' = "exit" /\ exitCode' = 0
    /\ UNCHANGED <<cfg, cliErr, disk, batchIdx, batchResult, archive, options, projects,
                   scanResult, scanAux, sessionVars, parseVars, readVars>>

NextCLI ==
    \/ CLIValidateFails \/ CLIValidateOK
    \/ ScanNotFound \/ ScanReadDirFails \/ ScanBegin \/ ScanSkipEntry
    \/ ScanSessionsFail \/ ScanProjectLimit \/ ScanProject \/ ScanReturn
    \/ CLIRun
    \/ CLISingleExport \/ CLIBatchBegin \/ CLIBatchExportOne \/ CLIBatchDone

SpecCLI == InitCLI /\ [][NextCLI]_vars

(***************************************************************************)
(* Helpers for stating properties.                                         *)
(***************************************************************************)
Timestamps(s) == { s.Messages[i].Timestamp : i \in 1..Len(s.Messages) }
MinOf(S) == CHOOSE x \in S : \A y \in S : x <= y
MaxOf(S) == CHOOSE x \in S : \A y \in S : x >= y

RECURSIVE SumOver(_, _)
SumOver(S, f) ==
    IF S = {} THEN 0
    ELSE LET x == CHOOSE y \in S : TRUE IN f[x] + SumOver(S \ {x}, f)

\* C1: after any sequence of AddMessage calls on an empty Session, StartTime
\* is the minimum and EndTime the maximum of the held messages' timestamps.
C1_MinMax ==
    Len(session.Messages) > 0 =>
        /\ session.StartTime = MinOf(Timestamps(session))
        /\ session.EndTime = MaxOf(Timestamps(session))

\* C8: GetTokenUsage returns (sum of input_tokens + cache_read_input_tokens,
\* sum of output_tokens) over exactly the assistant-type messages whose
\* Content is an AssistantMessage with non-nil Usage; (0, 0) when empty.
CountsUsage(m) ==
    /\ m.Type = MessageTypeAssistant
    /\ m.Content.t = "AssistantMessage"
    /\ ~m.Content.Usage.nil
UsageIdx(s) == { i \in 1..Len(s.Messages) : CountsUsage(s.Messages[i]) }
C8_TokenUsage ==
    LET U == UsageIdx(session)
        in == [i \in U |-> session.Messages[i].Content.Usage.InputTokens
                           + session.Messages[i].Content.Usage.CacheReadInputTokens]
        out == [i \in U |-> session.Messages[i].Content.Usage.OutputTokens]
    IN  /\ GetTokenUsage(session).input = SumOver(U, in)
        /\ GetTokenUsage(session).output = SumOver(U, out)
        /\ (session.Messages = <<>> => GetTokenUsage(session) = [input |-> 0, output |-> 0])

\* a session holding an assistant message with usage and cache-creation
\* tokens, a user-type message carrying the same content, and an assistant
\* message without usage
C8_Witness ==
    /\ Len(session.Messages) = 3
    /\ \E i \in 1..3 : /\ CountsUsage(session.Messages[i])
                       /\ session.Messages[i].Content.Usage.CacheCreationInputTokens > 0
                       /\ session.Messages[i].Content.Usage.CacheReadInputTokens > 0
    /\ \E i \in 1..3 : /\ session.Messages[i].Type # MessageTypeAssistant
                       /\ session.Messages[i].Content.t = "AssistantMessage"
                       /\ ~session.Messages[i].Content.Usage.nil
    /\ \E i \in 1..3 : /\ session.Messages[i].Type = MessageTypeAssistant
                       /\ session.Messages[i].Content.t = "AssistantMessage"
                       /\ session.Messages[i].Content.Usage.nil
    /\ GetTokenUsage(session) = [input |-> 9, output |-> 2]

\* C10: for a user message ParseContent sets Content to UserText exactly when
\* userType is "external" and the payload's content is a plain string,
\* otherwise to ToolResultList exactly when userType is "external" and the
\* content is an array of tool-result shapes {tool_use_id, type, content};
\* in every other case Content stays nil and no error is returned.
PayloadContent(m) == IF m.Message.k = "obj" THEN Field(m.Message, "content") ELSE JAbsent
IsPlainString(j) == j.k = "str"
IsToolResultShape(j) ==
    /\ j.k = "obj"
    /\ {"tool_use_id", "type", "content"} \subseteq DOMAIN j.o
    /\ j.o.tool_use_id.k = "str"
    /\ j.o.type.k = "str"
IsToolResultArray(j) == j.k = "arr" /\ \A i \in 1..Len(j.a) : IsToolResultShape(j.a[i])
C10_UserDecode ==
    (parseErr # "none" /\ msgOrig.Type = MessageTypeUser) =>
        LET ext == msgOrig.UserType = "external"
            c == PayloadContent(msgOrig)
        IN  /\ msg.Content.t = "UserMessage" <=> (ext /\ IsPlainString(c))
            /\ msg.Content.t = "ToolResults"
                  <=> (ext /\ ~IsPlainString(c) /\ IsToolResultArray(c))
            /\ ~(ext /\ (IsPlainString(c) \/ IsToolResultArray(c)))
                  => (msg.Content = NilContent /\ parseErr = "nil")

\* C5: a file of k >= 1 well-formed record lines and any number of malformed
\* lines is read without error into a Session holding exactly the k
\* well-formed records, in file order.
WellFormed(line) == line.k = "text" /\ UnmarshalMessage(line.j).ok
Malformed(line) == line.k = "text" /\ ~UnmarshalMessage(line.j).ok
Returned == rsResult \notin {"idle", "start", "scanning"}
Raw(m) == [m EXCEPT !.Content = NilContent]
C5_SkipMalformed ==
    LET good == SelectSeq(file, WellFormed)
    IN  (/\ Returned /\ fileOpen
         /\ \A i \in 1..Len(file) : WellFormed(file[i]) \/ Malformed(file[i])
         /\ Len(good) >= 1)
        => /\ rsResult = "nil"
           /\ lineNum = Len(file)
           /\ Len(rsSession.Messages) = Len(good)
           /\ \A i \in 1..Len(good) :
                 Raw(rsSession.Messages[i]) = UnmarshalMessage(good[i].j).v

\* a malformed line between two well-formed ones
C5_Witness ==
    /\ rsResult = "nil" /\ Len(file) = 3
    /\ WellFormed(file[1]) /\ Malformed(file[2]) /\ WellFormed(file[3])
    /\ Len(rsSession.Messages) = 2
    /\ rsSession.Messages[1].UUID # rsSession.Messages[2].UUID

\* C9: a line that parses as a record becomes a Message whatever content
\* decoding does: when ParseContent fails or leaves the content undecoded the
\* message is appended with Content nil, it updates the time bounds and the
\* message count, and ReadSession does not fail because of it.
ContentFails(line) ==
    /\ WellFormed(line)
    /\ \/ ParseContent(UnmarshalMessage(line.j).v).err
       \/ ParseContent(UnmarshalMessage(line.j).v).msg.Content = NilContent
RECURSIVE AddAll(_, _)
AddAll(lines, n) ==
    IF n = 0 THEN EmptySession
    ELSE AddMessage(AddAll(lines, n - 1), UnmarshalMessage(lines[n].j).v)
C9_ContentBestEffort ==
    LET good == SelectSeq(SubSeq(file, 1, lineNum), WellFormed)
    IN  /\ GetMessageCount(rsSession) = Len(good)
        /\ rsSession.StartTime = AddAll(good, Len(good)).StartTime
        /\ rsSession.EndTime = AddAll(good, Len(good)).EndTime
        /\ \A i \in 1..Len(good) :
              ContentFails(good[i]) =>
                 /\ rsSession.Messages[i] = UnmarshalMessage(good[i].j).v
                 /\ rsSession.Messages[i].Content = NilContent
                 /\ rsSession.EndTime >= rsSession.Messages[i].Timestamp
        /\ (Returned /\ fileOpen /\ lineNum = Len(file)
               /\ \E i \in 1..Len(file) : ContentFails(file[i]))
           => rsResult = "nil"

\* a file whose only record fails content decoding was read into a session
C9_Witness ==
    /\ rsResult = "nil" /\ Len(rsSession.Messages) = 1
    /\ \E i \in 1..Len(file) :
          /\ WellFormed(file[i])
          /\ ParseContent(UnmarshalMessage(file[i].j).v).err
    /\ rsSession.Messages[1].Content = NilContent
    /\ rsSession.EndTime = rsSession.Messages[1].Timestamp
    /\ rsSession.EndTime # ZeroTime

ScanDone == pc = "done"
ScanOK == pc = "done" /\ scanResult = "nil"
TotalSessions(ps) == SumOver(1..Len(ps), [i \in 1..Len(ps) |-> Len(ps[i].Sessions)])

IsPrefix(p, q) == Len(p) <= Len(q) /\ SubSeq(q, 1, Len(p)) = p

\* a session file that yields a session: it opens, no line is over the cap
\* and some line parses as a record
YieldsSession(f) ==
    /\ IsSessionFile(f) /\ f.openable
    /\ \A k \in 1..Len(f.lines) : f.lines[k].k # "toolong"
    /\ \E k \in 1..Len(f.lines) : WellFormed(f.lines[k])

\* the sessions successfully read from entry i, in listing order
ReadSessionsOf(i) ==
    LET good == SelectSeq(archive.entries[i].files, YieldsSession)
    IN  [k \in 1..Len(good) |->
            [ReadSession(good[k]).session EXCEPT !.ProjectID = archive.entries[i].name]]

\* the date filter as the claim states it
InRange(s) ==
    /\ (options.StartDate.nil \/ s.EndTime >= options.StartDate.t)
    /\ (options.EndDate.nil \/ s.EndTime <= options.EndDate.t)
PassingOf(i) == SelectSeq(ReadSessionsOf(i), InRange)

\* the path filter as the claim states it
Decoded(name) == [k \in 1..Len(name) |-> IF name[k] = "-" THEN "/" ELSE name[k]]
MatchesFilter(path) ==
    \E k \in 1..Len(options.ProjectPaths) : Contains(path, options.ProjectPaths[k])
IsProjectDir(i) ==
    /\ archive.entries[i].isDir /\ archive.entries[i].readable
    /\ (options.ProjectPaths # <<>> => MatchesFilter(Decoded(archive.entries[i].name)))

\* the sessions the result holds for entry i
KeptOf(i) ==
    IF \E k \in 1..Len(projects) : projects[k].ID = archive.entries[i].name
    THEN projects[CHOOSE k \in 1..Len(projects) :
                     projects[k].ID = archive.entries[i].name].Sessions
    ELSE <<>>

LimitHit == options.MaxSessions > 0 /\ TotalSessions(projects) >= options.MaxSessions

\* C2: a successfully read session is retained iff its EndTime lies in
\* [StartDate, EndDate] (a nil bound does not restrict), whatever its
\* StartTime; a dropped session is not counted towards the session cap and
\* is no error.
C2_DateFilter ==
    ScanOK =>
        /\ \A i \in visited :
              archive.entries[i].readable =>
                 /\ IsPrefix(KeptOf(i), PassingOf(i))
                 /\ (~LimitHit \/ i # entryIdx) => KeptOf(i) = PassingOf(i)
        /\ \A k \in 1..Len(projects) : \A n \in 1..Len(projects[k].Sessions) :
              InRange(projects[k].Sessions[n])
        /\ sessionCount = TotalSessions(projects)

\* under both bounds and a cap of 2, a session that starts before the start
\* date is retained, and a project whose first session is dropped for its
\* EndTime still gets two sessions
C2_Witness ==
    /\ ScanOK /\ ~options.StartDate.nil /\ ~options.EndDate.nil
    /\ options.MaxSessions = 2
    /\ \E k \in 1..Len(projects) : \E n \in 1..Len(projects[k].Sessions) :
          projects[k].Sessions[n].StartTime < options.StartDate.t
    /\ \E i \in visited :
          /\ archive.entries[i].readable
          /\ Len(ReadSessionsOf(i)) = 3
          /\ ~InRange(ReadSessionsOf(i)[1])
          /\ KeptOf(i) = PassingOf(i)
          /\ Len(KeptOf(i)) = 2

\* C3: with MaxSessions > 0 the result holds min(MaxSessions, number of
\* sessions passing the path and date filters) sessions; the scan stops at
\* the session that reaches the cap, returns the project holding it, and
\* visits and returns no later project directory.
PassingCount ==
    LET dirs == { i \in 1..Len(archive.entries) : IsProjectDir(i) }
    IN  SumOver(dirs, [i \in dirs |-> Len(PassingOf(i))])
MinInt(a, b) == IF a <= b THEN a ELSE b
C3_SessionCap ==
    (ScanOK /\ options.MaxSessions > 0) =>
        /\ TotalSessions(projects) = MinInt(options.MaxSessions, PassingCount)
        /\ TotalSessions(projects) = options.MaxSessions =>
              /\ entryIdx \in visited
              /\ projects[Len(projects)].ID = archive.entries[entryIdx].name
              /\ IsPrefix(KeptOf(entryIdx), PassingOf(entryIdx))
              /\ \A j \in 1..Len(archive.entries) :
                    j > entryIdx =>
                       /\ j \notin visited
                       /\ KeptOf(j) = <<>>
                       /\ \A f \in filesRead : f[1] # j

\* the cap is reached in the first project although it and a later project
\* directory hold more passing sessions
C3_Witness ==
    /\ ScanOK /\ options.MaxSessions = 2 /\ TotalSessions(projects) = 2
    /\ PassingCount > 2
    /\ entryIdx < Len(archive.entries)
    /\ IsProjectDir(Len(archive.entries))
    /\ Len(PassingOf(Len(archive.entries))) > 0
    /\ Len(KeptOf(entryIdx)) < Len(PassingOf(entryIdx))

\* C4: with a non-empty ProjectPaths every returned project's decoded path
\* contains one of the filter strings, and (without a session cap) every
\* project directory whose decoded path contains one and that yields a
\* retained session is returned; with an empty ProjectPaths the filter skips
\* no directory.
C4_PathFilter ==
    ScanOK =>
        /\ options.ProjectPaths # <<>> =>
              \A k \in 1..Len(projects) :
                 /\ projects[k].Path = Decoded(projects[k].ID)
                 /\ MatchesFilter(projects[k].Path)
        /\ options.MaxSessions = 0 =>
              \A i \in 1..Len(archive.entries) :
                 (/\ archive.entries[i].isDir /\ archive.entries[i].readable
                  /\ (options.ProjectPaths # <<>> =>
                         MatchesFilter(Decoded(archive.entries[i].name)))
                  /\ Len(PassingOf(i)) > 0)
                 => (i \in visited /\ KeptOf(i) = PassingOf(i))
        /\ (options.ProjectPaths = <<>> /\ options.MaxSessions = 0) =>
              \A i \in 1..Len(archive.entries) :
                 archive.entries[i].isDir => i \in visited

\* of two project directories with sessions the filter lets through only
\* the second
C4_Witness ==
    /\ ScanOK /\ options.ProjectPaths # <<>> /\ options.MaxSessions = 0
    /\ Len(archive.entries) = 2
    /\ \A i \in 1..2 : archive.entries[i].isDir /\ Len(PassingOf(i)) > 0
    /\ ~MatchesFilter(Decoded(archive.entries[1].name))
    /\ MatchesFilter(Decoded(archive.entries[2].name))
    /\ Len(projects) = 1
    /\ projects[1].ID = archive.entries[2].name

\* C6: a session file that cannot be opened or yields no parsed record makes
\* ReadSession return an error and no session; in a scan it contributes no
\* session and no error, and the other session files of the project and of
\* later projects are still read.
NoRecords(f) == \A k \in 1..Len(f.lines) : ~WellFormed(f.lines[k])
FailsToRead(f) == IsSessionFile(f) /\ (~f.openable \/ NoRecords(f))
C6_FailedFileSkipped ==
    /\ \A i \in 1..Len(archive.entries) : \A k \in 1..Len(archive.entries[i].files) :
          FailsToRead(archive.entries[i].files[k]) =>
             /\ ReadSession(archive.entries[i].files[k]).err # "nil"
             /\ "session" \notin DOMAIN ReadSession(archive.entries[i].files[k])
    /\ (ScanDone /\ archive.projectsDir = "ok") =>
          /\ scanResult = "nil"
          /\ \A i \in visited : \A k \in 1..Len(archive.entries[i].files) :
                (archive.entries[i].readable /\ IsSessionFile(archive.entries[i].files[k]))
                => <<i, k>> \in filesRead
          /\ \A i \in visited :
                (/\ archive.entries[i].readable /\ options.MaxSessions = 0
                 /\ options.StartDate.nil /\ options.EndDate.nil)
                => KeptOf(i) = ReadSessionsOf(i)
          /\ options.MaxSessions = 0 =>
                \A i \in 1..Len(archive.entries) : IsProjectDir(i) => i \in visited

\* a project whose listing has an unreadable and a record-less file between
\* readable ones yields both sessions, and the project after it is scanned
C6_Witness ==
    /\ ScanOK /\ Len(archive.entries) = 2 /\ visited = {1, 2}
    /\ \E k \in 1..Len(archive.entries[1].files) :
          /\ ~archive.entries[1].files[k].openable
          /\ <<1, k>> \in filesRead
          /\ \E n \in 1..Len(archive.entries[1].files) :
                n > k /\ YieldsSession(archive.entries[1].files[n])
    /\ \E k \in 1..Len(archive.entries[1].files) :
          /\ archive.entries[1].files[k].openable
          /\ FailsToRead(archive.entries[1].files[k])
    /\ Len(KeptOf(1)) = 2
    /\ Len(KeptOf(2)) > 0

\* C7: ScanProjects returns an error, with a nil project list, exactly when
\* the archive root or its projects directory is missing or the projects
\* directory is unreadable.
C7_FatalOnlyAtRoot ==
    ScanDone =>
        /\ scanResult # "nil"
              <=> archive.projectsDir \in {"rootmissing", "missing", "unreadable"}
        /\ scanResult # "nil" => (projects = <<>> /\ visited = {} /\ filesRead = {})

\* the scan of an unreadable projects directory has failed
C7_Witness ==
    /\ ScanDone /\ archive.projectsDir = "unreadable"
    /\ scanResult = "failed to read projects directory"
    /\ projects = <<>>

CarriesID(line) == WellFormed(line) /\ UnmarshalMessage(line.j).v.SessionID # ""
InResult(i) == \E k \in 1..Len(projects) : projects[k].ID = archive.entries[i].name
C12_NoEmptyProject ==
    /\ \A k \in 1..Len(projects) : Len(projects[k].Sessions) > 0
    /\ ScanOK =>
          \A i \in 1..Len(archive.entries) :
             /\ (~archive.entries[i].isDir \/ ~archive.entries[i].readable) => ~InResult(i)
             /\ (archive.entries[i].isDir /\ archive.entries[i].readable
                   /\ Len(PassingOf(i)) = 0) => ~InResult(i)
             /\ InResult(i) => (i \in visited /\ Len(PassingOf(i)) > 0)

\* with todo lists to attach, a directory whose only session is dropped by
\* the date filter and a directory whose files all fail are both absent
C12_Witness ==
    /\ ScanOK /\ options.IncludeTodos /\ options.MaxSessions = 0
    /\ archive.todosDir = "ok" /\ Len(archive.entries) = 2
    /\ Len(scanProjectTodos(archive).todoLists) > 0
    /\ visited = {1, 2} /\ projects = <<>>
    /\ Len(ReadSessionsOf(1)) > 0 /\ Len(PassingOf(1)) = 0
    /\ Len(archive.entries[2].files) > 0 /\ Len(ReadSessionsOf(2)) = 0

\* a todo file (no directory, name ending in .json) that can be read and
\* holds a JSON array of todo records
IsTodoFile(f) == ~f.isDir /\ HasJSONSuffix(f.name)
ReadableWellFormed(f) ==
    /\ IsTodoFile(f) /\ f.readable
    /\ f.json.k = "arr"
    /\ \A i \in 1..Len(f.json.a) : f.json.a[i].k = "obj"
\* the session/agent pair derived from the filename, and whether it is non-empty
HasPair(f) == Cardinality({ i \in 1..Len(f.name) : f.name[i] = "-agent-" }) = 1
PairOf(f) ==
    LET at == CHOOSE i \in 1..Len(f.name) : f.name[i] = "-agent-"
    IN  [session |-> SubSeq(f.name, 1, at - 1),
         agent |-> SubSeq(f.name, at + 1, Len(f.name) - 1)]
PairNonEmpty(f) == HasPair(f) /\ PairOf(f).session # <<>> /\ PairOf(f).agent # <<>>
\* a list for the file is among the lists tls
ListFor(tls, f) ==
    \E t \in 1..Len(tls) :
        /\ HasPair(f)
        /\ tls[t].SessionID = PairOf(f).session
        /\ tls[t].AgentID = PairOf(f).agent
RecordCount(f) == IF f.json.k = "arr" THEN Len(f.json.a) ELSE 0
\* the content decodes into []*models.Todo: null, or an array of nulls and of
\* objects whose id, content, status and priority, when present, are strings
IsTodoShape(j) ==
    \/ j.k = "null"
    \/ /\ j.k = "obj"
       /\ \A fld \in {"id", "content", "status", "priority"} \cap DOMAIN j.o :
             j.o[fld].k \in {"str", "null"}
Decodes(f) ==
    \/ f.json.k = "null"
    \/ f.json.k = "arr" /\ \A i \in 1..Len(f.json.a) : IsTodoShape(f.json.a[i])
\* the project's scan ran to its end (it is not the one the cap returned on)
ScannedToEnd(k) == k < Len(projects) \/ ~LimitHit

\* C13 (as stated): with todo inclusion, a TodoList is attached for a
\* readable, well-formed todo file iff the session/agent pair derived from
\* its filename is non-empty; the number of records does not decide it.
C13_PairDecides ==
    (ScanOK /\ options.IncludeTodos /\ archive.todosDir = "ok"
        /\ options.MaxSessions = 0) =>
        \A k \in 1..Len(projects) : \A n \in 1..Len(archive.todoFiles) :
            ReadableWellFormed(archive.todoFiles[n]) =>
               (ListFor(projects[k].TodoLists, archive.todoFiles[n])
                   <=> PairNonEmpty(archive.todoFiles[n]))

\* C13 (amended): with todo inclusion, a TodoList is produced for a readable,
\* well-formed todo file iff its filename splits into exactly two parts on
\* "-agent-" and the file holds at least one todo record; an empty derived
\* pair does not prevent it. Every TodoList a project carries is one of
\* these, and a project scanned to its end carries all of them.
C13_RecordsDecide ==
    (options.IncludeTodos /\ archive.todosDir = "ok") =>
        LET files == archive.todoFiles
            accepted == { n \in 1..Len(files) :
                            /\ IsTodoFile(files[n]) /\ files[n].readable
                            /\ Decodes(files[n]) /\ HasPair(files[n])
                            /\ RecordCount(files[n]) > 0 }
        IN  \A k \in 1..Len(projects) :
               /\ \A t \in 1..Len(projects[k].TodoLists) :
                     \E n \in accepted :
                        /\ projects[k].TodoLists[t].SessionID = PairOf(files[n]).session
                        /\ projects[k].TodoLists[t].AgentID = PairOf(files[n]).agent
                        /\ Len(projects[k].TodoLists[t].Todos) = RecordCount(files[n])
               /\ ScannedToEnd(k) =>
                     /\ Len(projects[k].TodoLists) = Cardinality(accepted)
                     /\ \A n \in 1..Len(files) :
                           ReadableWellFormed(files[n]) =>
                              (ListFor(projects[k].TodoLists, files[n]) <=> n \in accepted)

\* a returned project carries a list for the file whose derived pair is
\* empty and none for the file with a non-empty pair and an empty array
C13_Witness ==
    /\ ScanOK /\ options.IncludeTodos /\ archive.todosDir = "ok"
    /\ Len(projects) > 0 /\ Len(projects[1].TodoLists) = 4
    /\ \E t \in 1..4 : /\ projects[1].TodoLists[t].SessionID = <<>>
                       /\ projects[1].TodoLists[t].AgentID = <<>>
    /\ \E n \in 1..Len(archive.todoFiles) :
          /\ ReadableWellFormed(archive.todoFiles[n])
          /\ PairNonEmpty(archive.todoFiles[n])
          /\ RecordCount(archive.todoFiles[n]) = 0
          /\ ~ListFor(projects[1].TodoLists, archive.todoFiles[n])

\* a todo file whose content is a JSON array of todo records
IsRecordArray(f) ==
    /\ f.json.k = "arr"
    /\ \A i \in 1..Len(f.json.a) :
          /\ f.json.a[i].k = "obj"
          /\ \A fld \in DOMAIN f.json.a[i].o : f.json.a[i].o[fld].k = "str"
\* the lists a project scanned to its end has to carry: one per todo file
\* that matches the name pattern, reads, decodes and holds a record
AcceptedTodoFiles ==
    { n \in 1..Len(archive.todoFiles) :
        /\ IsTodoFile(archive.todoFiles[n]) /\ archive.todoFiles[n].readable
        /\ Decodes(archive.todoFiles[n]) /\ HasPair(archive.todoFiles[n])
        /\ RecordCount(archive.todoFiles[n]) > 0 }
TodoScanned == options.IncludeTodos /\ archive.todosDir = "ok"

\* C14 (as stated): a todo file that is unreadable or is not a JSON array of
\* todo records makes TodoReader.Read return an error and no todos, and in a
\* scan only that file is skipped; an empty array gives zero todos, no error.
C14_NonArrayFails ==
    (ScanOK /\ TodoScanned /\ Len(projects) > 0) =>
        \A n \in 1..Len(archive.todoFiles) :
           LET f == archive.todoFiles[n]
           IN  /\ (~f.readable \/ ~IsRecordArray(f)) =>
                      (TodoRead(f).err # "nil" /\ "todos" \notin DOMAIN TodoRead(f))
               /\ (f.readable /\ f.json = JArr(<<>>)) =>
                      (TodoRead(f).err = "nil" /\ TodoRead(f).todos = <<>>)

\* C14 (amended): a todo file that is unreadable or whose content does not
\* decode (malformed JSON, a JSON value that is neither an array nor null, an
\* array element that is neither a todo object nor null) makes Read return an
\* error and no todos, and in a scan only that file is skipped: the lists of
\* the other todo files are attached and the project is returned. A file
\* holding an empty array, or null, gives zero todos and no error.
C14_FailedTodoFileSkipped ==
    TodoScanned =>
        /\ \A n \in 1..Len(archive.todoFiles) :
              LET f == archive.todoFiles[n]
              IN  /\ (~f.readable \/ ~Decodes(f)) =>
                         (TodoRead(f).err # "nil" /\ "todos" \notin DOMAIN TodoRead(f))
                  /\ (f.readable /\ f.json \in {JArr(<<>>), JNull}) =>
                         (TodoRead(f).err = "nil" /\ TodoRead(f).todos = <<>>)
        /\ \A k \in 1..Len(projects) :
              /\ \A n \in 1..Len(archive.todoFiles) :
                    (HasPair(archive.todoFiles[n]) /\ TodoRead(archive.todoFiles[n]).err # "nil")
                    => ~ListFor(projects[k].TodoLists, archive.todoFiles[n])
              /\ ScannedToEnd(k) =>
                    \A n \in AcceptedTodoFiles :
                       ListFor(projects[k].TodoLists, archive.todoFiles[n])
        /\ (ScanOK /\ options.MaxSessions = 0) =>
              \A i \in 1..Len(archive.entries) :
                 (IsProjectDir(i) /\ Len(PassingOf(i)) > 0) => InResult(i)

\* a returned project carries the list of a todo file listed after a
\* malformed file and an unreadable file, and no list for these two
C14_Witness ==
    /\ ScanOK /\ TodoScanned /\ Len(projects) > 0
    /\ \E a, b, c \in 1..Len(archive.todoFiles) :
          /\ a < c /\ b < c
          /\ HasPair(archive.todoFiles[a]) /\ archive.todoFiles[a].readable
          /\ archive.todoFiles[a].json = JInvalid
          /\ HasPair(archive.todoFiles[b]) /\ ~archive.todoFiles[b].readable
          /\ c \in AcceptedTodoFiles
          /\ ~ListFor(projects[1].TodoLists, archive.todoFiles[a])
          /\ ~ListFor(projects[1].TodoLists, archive.todoFiles[b])
          /\ ListFor(projects[1].TodoLists, archive.todoFiles[c])

\* a blank line: empty, or white space only
Blank(line) == line.k = "empty" \/ (line.k = "text" /\ line.ws)
NonEmptyMalformed(line) == line.k = "text" /\ ~UnmarshalMessage(line.j).ok
NonBlankMalformed(line) == ~Blank(line) /\ NonEmptyMalformed(line)
\* the 1-based numbers of the malformed lines among the first n, in order,
\* with or without the white-space lines
RECURSIVE WarnedUpTo(_, _)
WarnedUpTo(n, blankWarns) ==
    IF n = 0 THEN <<>>
    ELSE IF (IF blankWarns THEN NonEmptyMalformed(file[n]) ELSE NonBlankMalformed(file[n]))
         THEN Append(WarnedUpTo(n - 1, blankWarns), n)
         ELSE WarnedUpTo(n - 1, blankWarns)
RecordsUpTo(n) == SelectSeq(SubSeq(file, 1, n), WellFormed)

\* C15 (as stated): empty lines and lines of white space only are skipped
\* silently by ReadSession and StreamJSONLMessages: no message, no warning
\* and no callback call, while the 1-based line number of later warnings
\* still counts them.
C15_BlankSilent ==
    /\ rsWarnings = WarnedUpTo(lineNum, FALSE)
    /\ Len(rsSession.Messages) = Len(RecordsUpTo(lineNum))
    /\ stWarnings = WarnedUpTo(stLineNum, FALSE)
    /\ stResult \in {"streaming", "nil"} => Len(stDelivered) = Len(RecordsUpTo(stLineNum))

\* C15 (amended): empty lines are skipped silently by ReadSession and
\* StreamJSONLMessages (no message, no warning, no callback call); a line of
\* white space only gives no message and no callback call either, but it is
\* reported as a parse failure; both advance the 1-based line number of
\* later warnings.
C15_EmptySilent ==
    /\ rsWarnings = WarnedUpTo(lineNum, TRUE)
    /\ Len(rsSession.Messages) = Len(RecordsUpTo(lineNum))
    /\ stWarnings = WarnedUpTo(stLineNum, TRUE)
    /\ Len(stDelivered) = Len(RecordsUpTo(stLineNum))
    /\ \A i \in 1..Len(file) :
          file[i].k = "empty" =>
             /\ \A w \in 1..Len(rsWarnings) : rsWarnings[w] # i
             /\ \A w \in 1..Len(stWarnings) : stWarnings[w] # i

\* the stream of an empty line, a white-space line and a record called the
\* callback once and warned about line 2 only
C15_Witness ==
    /\ stResult = "nil" /\ Len(file) = 3
    /\ file[1] = EmptyLine /\ file[2] = SpaceLine /\ WellFormed(file[3])
    /\ stWarnings = <<2>> /\ Len(stDelivered) = 1

\* C16: with todo inclusion and no todos directory ScanProjects returns no
\* error, the todo scan reports no failure, and every project with retained
\* sessions is returned with an empty TodoLists; a missing CLAUDE.md makes
\* ScanClaudeConfig return the empty string and no error.
C16_AbsentOptional ==
    /\ (options.IncludeTodos /\ archive.todosDir = "missing") =>
          /\ scanProjectTodos(archive) = [err |-> "nil", todoLists |-> <<>>]
          /\ \A k \in 1..Len(projects) : projects[k].TodoLists = <<>>
          /\ (pc \in {"done", "config"} /\ archive.projectsDir = "ok") =>
                /\ scanResult = "nil"
                /\ options.MaxSessions = 0 =>
                      \A i \in 1..Len(archive.entries) :
                         (IsProjectDir(i) /\ Len(PassingOf(i)) > 0)
                         => (InResult(i) /\ KeptOf(i) = PassingOf(i))
    /\ (pc = "config" /\ claudeMd.err = "notexist") =>
          configResult = [content |-> "", err |-> "nil"]

\* an archive without todos directory and without CLAUDE.md gave two
\* projects without todo lists and an empty configuration
C16_Witness ==
    /\ pc = "config" /\ scanResult = "nil"
    /\ options.IncludeTodos /\ archive.todosDir = "missing"
    /\ Len(projects) = 2
    /\ claudeMd.err = "notexist" /\ configResult.content = "" /\ configResult.err = "nil"

\* the config is valid apart from its output path
ValidButOutput == validateConfig([cfg EXCEPT !.outputPath = "-"], archive) = "nil"

\* the archive has a project directory with sessions and the config
\* filters none of them out
HasProjects ==
    /\ archive.projectsDir = "ok" /\ cfg.startTime = "" /\ cfg.endTime = ""
    /\ \E i \in 1..Len(archive.entries) :
          archive.entries[i].isDir /\ archive.entries[i].readable

\* C17: a run of cc-export without --output (empty output path) or with
\* --output - passes configuration validation, and its export is written to
\* standard output.
C17_StdoutDefault ==
    (/\ cliPc = "exit" /\ cfg.outputPath \in {"", "-"} /\ ~cfg.batchExport
     /\ ValidButOutput /\ HasProjects)
    => /\ cliErr = "" /\ exitCode = 0
       /\ \E i \in 1..Len(stdout) : stdout[i] = "export"

\* C18: for a date-only --end-time D the end bound handed to the scanner is
\* 23:59:59 of day D and every retained session ends on day D or earlier;
\* for a date-only --start-time the bound is 00:00:00 of that day.
C18_EndOfDay ==
    (cliPc \in {"scan", "single", "batch", "batchloop", "exit"} /\ pc = "done"
     /\ scanResult = "nil") =>
       /\ isDateOnly(cfg.endTime) =>
             /\ DayOf(options.EndDate.t) = DayOf(parseDateTime(cfg.endTime).v)
             /\ SecondOf(options.EndDate.t) = 86399
             /\ \A k \in 1..Len(projects) : \A n \in 1..Len(projects[k].Sessions) :
                   DayOf(projects[k].Sessions[n].EndTime)
                      <= DayOf(parseDateTime(cfg.endTime).v)
       /\ isDateOnly(cfg.startTime) =>
             /\ DayOf(options.StartDate.t) = DayOf(parseDateTime(cfg.startTime).v)
             /\ SecondOf(options.StartDate.t) = 0

\* C19: when ExportProjects has gone through distinct projects, the files of
\* the projects exported successfully are pairwise distinct, and as many
\* files were produced as SuccessCount says.
C19_SeparateFiles ==
    (cliPc = "exit" /\ cfg.batchExport /\ batchIdx > Len(projects)) =>
       /\ \A i, j \in 1..Len(batchResult.Files) :
             i # j => batchResult.Files[i] # batchResult.Files[j]
       /\ Cardinality(disk) = batchResult.SuccessCount

\* C20: Project.GetTimeRange returns the minimum StartTime and the maximum
\* EndTime over the project's sessions, in any insertion order and also when
\* a session's StartTime is the zero time; zero values without sessions.
C20_TimeRange ==
    /\ GetTimeRange(NewProject(<<"a">>)) = [start |-> ZeroTime, end |-> ZeroTime]
    /\ \A k \in 1..Len(projects) :
          LET ss == projects[k].Sessions
          IN  Len(ss) > 0 =>
                 /\ GetTimeRange(projects[k]).start
                       = MinOf({ ss[n].StartTime : n \in 1..Len(ss) })
                 /\ GetTimeRange(projects[k]).end
                       = MaxOf({ ss[n].EndTime : n \in 1..Len(ss) })

\* C21: GetDuration is EndTime - StartTime when neither bound is the zero
\* time and 0 when either is; a session without messages has both bounds
\* zero, duration 0 and message count 0.
C21_Duration ==
    /\ (session.StartTime # ZeroTime /\ session.EndTime # ZeroTime)
          => GetDuration(session) = session.EndTime - session.StartTime
    /\ (session.StartTime = ZeroTime \/ session.EndTime = ZeroTime)
          => GetDuration(session) = 0
    /\ session.Messages = <<>> =>
          /\ session.StartTime = ZeroTime /\ session.EndTime = ZeroTime
          /\ GetDuration(session) = 0 /\ GetMessageCount(session) = 0

\* after a message at instant 2 and one at the zero time the start bound is
\* zero, the end bound is not, and the duration is 0
C21_Witness ==
    /\ Len(session.Messages) = 2
    /\ session.StartTime = ZeroTime /\ session.EndTime = 2
    /\ GetDuration(session) = 0

\* C29: after any AddMessage calls on an empty session StartTime <= EndTime,
\* each bound is the zero time or the timestamp of a contained message, and
\* GetDuration is not negative.
C29_BoundsOrdered ==
    /\ session.StartTime <= session.EndTime
    /\ session.StartTime \in Timestamps(session) \cup {ZeroTime}
    /\ session.EndTime \in Timestamps(session) \cup {ZeroTime}
    /\ GetDuration(session) >= 0

\* three messages at instants 3, 1, 2: the bounds are 1 and 3, duration 2
C29_Witness ==
    /\ Len(session.Messages) = 3
    /\ session.Messages[1].Timestamp = 3 /\ session.Messages[2].Timestamp = 1
    /\ session.Messages[3].Timestamp = 2
    /\ session.StartTime = 1 /\ session.EndTime = 3 /\ GetDuration(session) = 2

\* the todos of a list that are there and completed
CompletedOf(tl) ==
    { i \in 1..Len(tl.Todos) : ~tl.Todos[i].nil /\ tl.Todos[i].Status = "completed" }

\* C22: GetCompletionRate returns 100 * completed / count for a non-empty
\* list and 0 for an empty one, always a value between 0 and 100: here on
\* the empty list and on every TodoList a scan attached to a project.
C22_CompletionRate ==
    /\ GetCompletionRate([SessionID |-> <<>>, AgentID |-> <<>>, Todos |-> <<>>])
          = [panic |-> FALSE, num |-> 0, den |-> 1]
    /\ \A k \in 1..Len(projects) : \A n \in 1..Len(projects[k].TodoLists) :
          LET tl == projects[k].TodoLists[n]
              r == GetCompletionRate(tl)
          IN  /\ ~r.panic
              /\ r.num * Len(tl.Todos) = 100 * Cardinality(CompletedOf(tl)) * r.den
              /\ 0 <= r.num /\ r.num <= 100 * r.den

\* the todo lists of the todos root: one per accepted todo file, in listing
\* order, named by the file name
AcceptedFile(f) ==
    /\ IsTodoFile(f) /\ f.readable /\ Decodes(f) /\ HasPair(f) /\ RecordCount(f) > 0
ListsOfRoot ==
    LET acc == SelectSeq(archive.todoFiles, AcceptedFile)
    IN  [t \in 1..Len(acc) |->
           [SessionID |-> PairOf(acc[t]).session, AgentID |-> PairOf(acc[t]).agent,
            Todos |-> TodoRead(acc[t]).todos]]

\* the list is named after one of the project's sessions
OwnList(p, tl) == \E n \in 1..Len(p.Sessions) : <<p.Sessions[n].ID>> = tl.SessionID

\* C23: with todo inclusion every project ScanProjects returns carries the
\* todo lists read from the todos root, also the project whose session
\* completed the session cap.
C23_TodosOnEveryProject ==
    (ScanOK /\ TodoScanned) =>
        \A k \in 1..Len(projects) : projects[k].TodoLists = ListsOfRoot

\* C25: in a scan with todo inclusion and without session cap every returned
\* project has the same TodoLists, one per accepted todo file, whether or not
\* a list's session ID is the ID of a session of the project.
C25_NoCrossCheck ==
    (TodoScanned /\ options.MaxSessions = 0) =>
        \A k \in 1..Len(projects) : projects[k].TodoLists = ListsOfRoot

\* two projects were returned with the same four lists, of which one is
\* named after a session of the first project and one after no session of it
C25_Witness ==
    /\ ScanOK /\ TodoScanned /\ options.MaxSessions = 0
    /\ Len(projects) = 2 /\ Len(ListsOfRoot) = 4
    /\ projects[1].TodoLists = projects[2].TodoLists
    /\ \E t \in 1..4 : OwnList(projects[1], projects[1].TodoLists[t])
    /\ \E t \in 1..4 : ~OwnList(projects[1], projects[1].TodoLists[t])

\* C30: no TodoList attached to a project is empty: a todo file that gives no
\* todo record gives no list.
C30_NoEmptyTodoList ==
    /\ \A k \in 1..Len(projects) : \A n \in 1..Len(projects[k].TodoLists) :
          Len(projects[k].TodoLists[n].Todos) >= 1
    /\ TodoScanned =>
          \A n \in 1..Len(archive.todoFiles) :
             (HasPair(archive.todoFiles[n]) /\ archive.todoFiles[n].readable
                /\ (archive.todoFiles[n].json = JArr(<<>>) \/ archive.todoFiles[n].json = JNull))
             => \A k \in 1..Len(projects) :
                   ~ListFor(projects[k].TodoLists, archive.todoFiles[n])

\* a project got its todo lists from a todos root that also holds a file with
\* an empty array and a file with null
C30_Witness ==
    /\ ScanOK /\ TodoScanned /\ Len(projects) > 0
    /\ Len(projects[1].TodoLists) = 4
    /\ \E a, b \in 1..Len(archive.todoFiles) :
          /\ HasPair(archive.todoFiles[a]) /\ archive.todoFiles[a].json = JArr(<<>>)
          /\ HasPair(archive.todoFiles[b]) /\ archive.todoFiles[b].readable
          /\ archive.todoFiles[b].json = JNull

\* the entry of the projects directory a returned project was made from
EntryOf(k) == CHOOSE i \in 1..Len(archive.entries) : archive.entries[i].name = projects[k].ID

\* the messages of session s are the well-formed records of file f, in line order
MessagesInLineOrder(s, f) ==
    LET good == SelectSeq(f.lines, WellFormed)
    IN  /\ Len(s.Messages) = Len(good)
        /\ \A j \in 1..Len(good) : Raw(s.Messages[j]) = UnmarshalMessage(good[j].j).v

\* C24: order is kept at every level of a scan: the returned projects follow
\* the order of the projects directory listing, a project's sessions follow
\* the order of its session files, and a session's messages are the parsed
\* records of its file in line order; nothing is sorted again.
C24_OrderPreserved ==
    /\ \A k \in 1..Len(projects) :
          \E i \in 1..Len(archive.entries) : archive.entries[i].name = projects[k].ID
    /\ \A k, l \in 1..Len(projects) : k < l => EntryOf(k) < EntryOf(l)
    /\ \A k \in 1..Len(projects) :
          LET files == archive.entries[EntryOf(k)].files
              ss == projects[k].Sessions
          IN  \E idx \in [1..Len(ss) -> 1..Len(files)] :
                 /\ \A m, n \in 1..Len(ss) : m < n => idx[m] < idx[n]
                 /\ \A n \in 1..Len(ss) :
                       /\ YieldsSession(files[idx[n]])
                       /\ MessagesInLineOrder(ss[n], files[idx[n]])

\* two projects were returned: the first has two sessions of which the one
\* listed first starts later, the second a session whose first message is
\* later than its second
C24_Witness ==
    /\ ScanOK /\ Len(projects) = 2
    /\ Len(projects[1].Sessions) = 2
    /\ projects[1].Sessions[1].StartTime > projects[1].Sessions[2].StartTime
    /\ Len(projects[2].Sessions) = 1 /\ Len(projects[2].Sessions[1].Messages) = 2
    /\ projects[2].Sessions[1].Messages[1].Timestamp
          > projects[2].Sessions[1].Messages[2].Timestamp

\* C26: ParseContent changes at most the Content field of its message: UUID,
\* ParentUUID, SessionID, Type, UserType, Timestamp and the raw payload are
\* as before, whether it returns an error or not, and no session is touched.
C26_OnlyContent ==
    /\ [msg EXCEPT !.Content = msgOrig.Content] = msgOrig
    /\ \A f \in {"UUID", "ParentUUID", "SessionID", "Type", "UserType", "Timestamp",
                  "Message"} : msg[f] = msgOrig[f]
    /\ parseErr = "error" => msg = msgOrig
    /\ session = EmptySession

\* ParseContent decoded an assistant payload: Content changed
C26_Witness ==
    /\ parseErr = "nil" /\ msg.Type = MessageTypeAssistant
    /\ msgOrig.Content = NilContent /\ msg.Content # NilContent
    /\ msg.Message = msgOrig.Message /\ msg.Message.k = "obj"

\* the line is longer than the cap of 10 MB; it is not longer than the cap
OverCap(line) == line.k = "toolong"
UpToCap(line) == line.k \in {"empty", "text", "full"}

\* C27: a line longer than the 10 MB cap makes ReadSession return a read
\* error and no session, even after well-formed lines; a file whose lines
\* are all up to the cap is read to its end without a read error.
C27_LongLineFatal ==
    (Returned /\ fileOpen) =>
        /\ (\E i \in 1..Len(file) : OverCap(file[i]))
              => (rsResult = "error reading file"
                    /\ "session" \notin DOMAIN ReadSession(SessionFile(file)))
        /\ (\A i \in 1..Len(file) : UpToCap(file[i]))
              => (rsResult # "error reading file" /\ lineNum = Len(file))

\* C28: when the input is read without stream error and the callback never
\* fails, the messages StreamJSONLMessages handed to the callback are, in
\* order, the Messages of the Session ReadSession builds from the same
\* input; ReadSession returns an error instead when there is none.
C28_StreamEqualsRead ==
    (stResult = "nil" /\ cbFailAt = 0) =>
        LET r == ReadSession(SessionFile(file))
        IN  IF stDelivered = <<>>
            THEN r.err = "no messages found in file"
            ELSE r.err = "nil" /\ r.session.Messages = stDelivered

\* a stream of a record, a malformed line and a second record handed over
\* two messages, the first with decoded content
C28_Witness ==
    /\ stResult = "nil" /\ cbFailAt = 0 /\ Len(file) = 3
    /\ WellFormed(file[1]) /\ Malformed(file[2]) /\ WellFormed(file[3])
    /\ Len(stDelivered) = 2 /\ stDelivered[1].Content # NilContent
    /\ stDelivered[1] # stDelivered[2]

====
